---- MODULE Spec2Model ----
(***************************************************************************)
(* GoNhanh Vietnamese IME core: keycode and character tables, vowel        *)
(* phonology, the per-keystroke rewrite engine with its history ring, the  *)
(* auto-restore arbiter, and the host that applies the engine's results    *)
(* to its screen.                                                          *)
(*                                                                         *)
(* Keys are named by their letter ("a" .. "z") or by the keycode constant  *)
(* ("SPACE", "DELETE").  A character on screen is a triple                 *)
(* <<base, mark, upper>>: base is the unmarked letter of VOWEL_TABLE       *)
(* ("aw" = a-breve, "aa" = a-circumflex, "ee", "oo", "ow" = o-horn,        *)
(* "uw" = u-horn, "dd" = d-stroke, or a plain letter), mark is 0..5.       *)
(***************************************************************************)
EXTENDS Integers, Sequences, FiniteSets, TLC

(* ---------------------------------------------------------------------- *)
(* Bounds of the model                                                     *)
(* ---------------------------------------------------------------------- *)

\* Number of key events of one run.
MaxKeys == 6

\* Capacity of the history ring.
HistCap == 2

\* Capacity of the syllable buffer, in cells.
MaxBuf == 5

\* Longest initial consonant cluster before the vowels handed to the
\* phonology.
MaxOnset == 2

\* Largest tone modifier and largest mark handed to to_char: one and two
\* beyond the values that mean something.
MaxTone == 3

MaxMark == 7

\* Number of FFI calls of one run.
MaxCalls == 3

\* Number of key events of one run in which every key comes with any of
\* its flags.
MaxDispatch == 2

(* ---------------------------------------------------------------------- *)
(* data/keys.rs                                                            *)
(* ---------------------------------------------------------------------- *)

SPACE == "SPACE"

DELETE == "DELETE"

ESC == "ESC"

COMMA == "COMMA"

\* The number keys N0 .. N9, named by their digit.
Digits == {"0", "1", "2", "3", "4", "5", "6", "7", "8", "9"}

\* A keycode outside the table: char_to_key's 255.
UNKNOWN == "UNKNOWN"

Letters ==
    {"a", "b", "c", "d", "e", "f", "g", "h", "i", "j", "k", "l", "m",
     "n", "o", "p", "q", "r", "s", "t", "u", "v", "w", "x", "y", "z"}

\* A faulty is_break that leaves the space key out.
is_break_no_space(key) ==
    key \in {"TAB", "RETURN", "ENTER", "ESC", "LEFT", "RIGHT", "UP", "DOWN",
             "DOT", "COMMA", "SLASH", "SEMICOLON", "QUOTE", "LBRACKET",
             "RBRACKET", "BACKSLASH", "MINUS", "EQUAL", "BACKQUOTE"}

is_break(key) ==
    key \in {"SPACE", "TAB", "RETURN", "ENTER", "ESC", "LEFT", "RIGHT", "UP",
             "DOWN", "DOT", "COMMA", "SLASH", "SEMICOLON", "QUOTE",
             "LBRACKET", "RBRACKET", "BACKSLASH", "MINUS", "EQUAL",
             "BACKQUOTE"}

is_vowel(key) == key \in {"a", "e", "i", "o", "u", "y"}

\* A faulty is_letter that takes the keycode 255 for a letter.
is_letter_or_unknown(key) == key \in Letters \cup {"UNKNOWN"}

is_letter(key) == key \in Letters

is_consonant(key) == is_letter(key) /\ ~is_vowel(key)

(* ---------------------------------------------------------------------- *)
(* data/chars.rs                                                           *)
(* ---------------------------------------------------------------------- *)

\* tone modifier constants: 0 none, 1 circumflex, 2 horn / breve
TONE_NONE == 0

CIRCUMFLEX == 1

HORN == 2

\* The twelve bases of VOWEL_TABLE.
VowelBases ==
    {"a", "aw", "aa", "e", "ee", "i", "o", "oo", "ow", "u", "uw", "y"}

\* Option::None of a base letter, and of a character.
NoBase == "None"

NoChar == <<>>

\* A faulty get_base_char that gives e a horned base.
get_base_char_horn_e(key, tone) ==
    CASE key = "a" -> (IF tone = 1 THEN "aa" ELSE IF tone = 2 THEN "aw" ELSE "a")
      [] key = "e" -> (IF tone = 1 THEN "ee" ELSE IF tone = 2 THEN "ew" ELSE "e")
      [] key = "i" -> "i"
      [] key = "o" -> (IF tone = 1 THEN "oo" ELSE IF tone = 2 THEN "ow" ELSE "o")
      [] key = "u" -> (IF tone = 2 THEN "uw" ELSE "u")
      [] key = "y" -> "y"
      [] OTHER -> NoBase

get_base_char(key, tone) ==
    CASE key = "a" -> (IF tone = 1 THEN "aa" ELSE IF tone = 2 THEN "aw" ELSE "a")
      [] key = "e" -> (IF tone = 1 THEN "ee" ELSE "e")
      [] key = "i" -> "i"
      [] key = "o" -> (IF tone = 1 THEN "oo" ELSE IF tone = 2 THEN "ow" ELSE "o")
      [] key = "u" -> (IF tone = 2 THEN "uw" ELSE "u")
      [] key = "y" -> "y"
      [] OTHER -> NoBase

\* A marked character is the pair of its base and its mark; mark 0 or a mark
\* above 5 leaves the base, as does a base that is not in the table.
apply_mark(base, mark) ==
    IF mark = 0 \/ mark > 5 THEN <<base, 0>>
    ELSE IF base \in VowelBases THEN <<base, mark>>
    ELSE <<base, 0>>

to_upper(ch) == <<ch[1], ch[2], TRUE>>

to_char(key, caps, tone, mark) ==
    IF key = "d" THEN <<"d", 0, caps>>
    ELSE IF get_base_char(key, tone) = NoBase THEN NoChar
    ELSE LET marked == apply_mark(get_base_char(key, tone), mark)
         IN  IF caps THEN to_upper(<<marked[1], marked[2], FALSE>>)
             ELSE <<marked[1], marked[2], FALSE>>

\* A faulty get_d that returns the plain letter.
get_d_plain(caps) == <<"d", 0, caps>>

get_d(caps) == <<"dd", 0, caps>>

(* ---------------------------------------------------------------------- *)
(* utils.rs: key_to_char                                                   *)
(* ---------------------------------------------------------------------- *)

\* A faulty key_to_char that ignores caps.
key_to_char_lower(key, caps) ==
    IF is_letter(key) THEN <<key, 0, FALSE>>
    ELSE IF key \in Digits THEN <<key, 0, FALSE>>
    ELSE NoChar

key_to_char(key, caps) ==
    IF is_letter(key) THEN <<key, 0, caps>>
    ELSE IF key \in Digits THEN <<key, 0, FALSE>>
    ELSE NoChar

(* ---------------------------------------------------------------------- *)
(* data/vowel.rs                                                           *)
(* ---------------------------------------------------------------------- *)

\* Vowel { key, modifier, pos }; pos is the 0-based index in the buffer.
Vowel(key, modifier, pos) == [key |-> key, modifier |-> modifier, pos |-> pos]

\* A faulty has_diacritic that sees the circumflex only.
has_diacritic_circumflex_only(v) == v.modifier = 1

\* A faulty has_diacritic that sees the horn only.
has_diacritic_horn_only(v) == v.modifier = 2

\* A faulty has_diacritic that sees no modifier at all.
has_diacritic_never(v) == FALSE

has_diacritic(v) == v.modifier # 0

\* A faulty is_medial_pair without the pair ua.
is_medial_pair_no_ua(v1, v2) ==
    <<v1, v2>> \in {<<"o", "a">>, <<"o", "e">>, <<"u", "e">>, <<"u", "y">>}

is_medial_pair(v1, v2) ==
    <<v1, v2>> \in {<<"o", "a">>, <<"o", "e">>, <<"u", "a">>, <<"u", "e">>,
                    <<"u", "y">>}

\* A faulty is_compound_vowel without the pair uo.
is_compound_vowel_no_uo(v1, v2) == <<v1, v2>> \in {<<"i", "e">>}

is_compound_vowel(v1, v2) ==
    <<v1, v2>> \in {<<"u", "o">>, <<"i", "e">>}

\* A faulty is_main_glide_pair that does not take y for a glide.
is_main_glide_pair_no_y(v1, v2) ==
    IF v2 \notin {"i", "o", "u"} THEN FALSE
    ELSE ~is_medial_pair(v1, v2) /\ ~is_compound_vowel(v1, v2)

is_main_glide_pair(v1, v2) ==
    IF v2 \notin {"i", "y", "o", "u"} THEN FALSE
    ELSE ~is_medial_pair(v1, v2) /\ ~is_compound_vowel(v1, v2)

\* A faulty FirstDiacritic that scans the vowels from the right.
LastDiacritic(vowels) ==
    LET idx == {i \in 1..Len(vowels) : has_diacritic(vowels[i])}
    IN  CHOOSE i \in idx : \A j \in idx : i >= j

\* The leftmost vowel carrying a diacritic, as the loop over the vowels finds it.
FirstDiacritic(vowels) ==
    LET idx == {i \in 1..Len(vowels) : has_diacritic(vowels[i])}
    IN  CHOOSE i \in idx : \A j \in idx : i <= j

\* A faulty find_tone_position that looks at the first vowel's diacritic
\* before it looks at the final consonant.
find_tone_position_diacritic_first(vowels, has_final, modern) ==
    IF Len(vowels) = 0 THEN 0
    ELSE IF Len(vowels) = 1 THEN vowels[1].pos
    ELSE IF has_diacritic(vowels[1]) /\ ~has_diacritic(vowels[2])
         THEN vowels[1].pos
    ELSE vowels[2].pos

\* A faulty find_tone_position that always answers with the middle vowel.
find_tone_position_always_middle(vowels, has_final, modern) ==
    IF Len(vowels) = 0 THEN 0 ELSE vowels[(Len(vowels) \div 2) + 1].pos

\* A faulty find_tone_position that answers with the vowel's index in the
\* list instead of its pos.
find_tone_position_index(vowels, has_final, modern) ==
    IF Len(vowels) = 0 THEN 0
    ELSE IF Len(vowels) = 2 THEN 1
    ELSE Len(vowels) \div 2

find_tone_position(vowels, has_final, modern) ==
    LET n == Len(vowels)
        mid == (n \div 2) + 1
        tail ==
            IF has_diacritic(vowels[mid]) THEN vowels[mid].pos
            ELSE IF \E i \in 1..n : has_diacritic(vowels[i])
                 THEN vowels[FirstDiacritic(vowels)].pos
            ELSE vowels[mid].pos
    IN  IF n = 0 THEN 0
        ELSE IF n = 1 THEN vowels[1].pos
        ELSE IF n = 2 THEN
            LET v1 == vowels[1]
                v2 == vowels[2]
            IN  IF has_final THEN v2.pos
                ELSE IF has_diacritic(v1) /\ ~has_diacritic(v2) THEN v1.pos
                ELSE IF is_compound_vowel(v1.key, v2.key) THEN v2.pos
                ELSE IF has_diacritic(v2) THEN v2.pos
                ELSE IF is_medial_pair(v1.key, v2.key)
                     THEN (IF modern THEN v2.pos ELSE v1.pos)
                ELSE IF is_main_glide_pair(v1.key, v2.key) THEN v1.pos
                ELSE v2.pos
        ELSE IF n = 3 THEN
            LET k0 == vowels[1].key
                k1 == vowels[2].key
                k2 == vowels[3].key
            IN  IF has_diacritic(vowels[2]) THEN vowels[2].pos
                ELSE IF has_diacritic(vowels[3]) THEN vowels[3].pos
                ELSE IF k0 = "u" /\ k1 = "o" THEN vowels[2].pos
                ELSE IF k0 = "o" /\ k1 = "a" THEN vowels[2].pos
                ELSE IF k0 = "u" /\ k1 = "y" /\ k2 = "e" THEN vowels[3].pos
                ELSE tail
        ELSE tail

\* Role: Main carries the tone, Medial glides before the main vowel, Final
\* glides at the syllable's end.  The result pairs each vowel's pos with its
\* role.
classify_roles(vowels, has_final_consonant) ==
    LET n == Len(vowels)
        main_idx == (n \div 2) + 1
        roles ==
            IF n = 2 THEN
                LET k1 == vowels[1].key
                    k2 == vowels[2].key
                IN  IF \/ is_medial_pair(k1, k2)
                       \/ is_compound_vowel(k1, k2)
                       \/ has_final_consonant
                    THEN <<"Medial", "Main">>
                    ELSE IF \/ is_main_glide_pair(k1, k2)
                            \/ (has_diacritic(vowels[1])
                                  /\ ~has_diacritic(vowels[2]))
                    THEN <<"Main", "Final">>
                    ELSE <<"Main", "Main">>
            ELSE [i \in 1..n |->
                    IF i = main_idx THEN "Main"
                    ELSE IF i = n /\ ~has_final_consonant THEN "Final"
                    ELSE IF i = 1 THEN "Medial"
                    ELSE "Main"]
    IN  IF n = 0 THEN <<>>
        ELSE IF n = 1 THEN << <<vowels[1].pos, "Main">> >>
        ELSE [i \in 1..n |-> <<vowels[i].pos, roles[i]>>]

(* ---------------------------------------------------------------------- *)
(* utils.rs: buffer scans                                                  *)
(* ---------------------------------------------------------------------- *)

\* The vowel cells of buf[i ..] in buffer order, each with its modifier and
\* its 0-based position.
RECURSIVE VowelsFrom(_, _)
VowelsFrom(buf, i) ==
    IF i > Len(buf) THEN <<>>
    ELSE IF is_vowel(buf[i].key)
         THEN <<Vowel(buf[i].key,
                      IF buf[i].tone = CIRCUMFLEX THEN 1
                      ELSE IF buf[i].tone = HORN THEN 2 ELSE 0,
                      i - 1)>> \o VowelsFrom(buf, i + 1)
    ELSE VowelsFrom(buf, i + 1)

collect_vowels(buf) == VowelsFrom(buf, 1)

\* after_pos is 0-based: the cells after it are buf[after_pos + 2 ..].
has_final_consonant(buf, after_pos) ==
    \E i \in (after_pos + 2)..Len(buf) : is_consonant(buf[i].key)

\* A faulty has_qu_initial that finds the q only while the u is the last
\* cell of the buffer.
has_qu_initial_u_last(buf) ==
    Len(buf) >= 2 /\ buf[Len(buf)].key = "u" /\ buf[Len(buf) - 1].key = "q"

\* The loop returns at the first u that is not the first cell.
has_qu_initial(buf) ==
    LET us == {i \in 2..Len(buf) : buf[i].key = "u"}
    IN  IF us = {} THEN FALSE
        ELSE LET i == CHOOSE x \in us : \A y \in us : x <= y
             IN  buf[i - 1].key = "q"

has_gi_initial(buf) ==
    IF Len(buf) < 3 THEN FALSE
    ELSE buf[1].key = "g" /\ buf[2].key = "i" /\ is_vowel(buf[3].key)

(* ---------------------------------------------------------------------- *)
(* Syllable buffer                                                         *)
(* ---------------------------------------------------------------------- *)

Cell(key, caps) ==
    [key |-> key, caps |-> caps, tone |-> TONE_NONE, mark |-> 0,
     stroke |-> FALSE]

\* The character one cell shows: the stroked d, a composed vowel, or the
\* plain letter.
cell_char(c) ==
    IF c.key = "d" /\ c.stroke THEN get_d(c.caps)
    ELSE IF c.key = "d" \/ get_base_char(c.key, c.tone) # NoBase
         THEN to_char(c.key, c.caps, c.tone, c.mark)
    ELSE key_to_char(c.key, c.caps)

\* The emission string of a buffer: compose(cell) for each cell.
Compose(buf) == [i \in 1..Len(buf) |-> cell_char(buf[i])]

\* The buffer's mark (0 when no cell carries one).
BufMark(buf) ==
    IF \E i \in 1..Len(buf) : buf[i].mark # 0
    THEN buf[CHOOSE i \in 1..Len(buf) : buf[i].mark # 0].mark
    ELSE 0

\* The rightmost of a set of cell indices, 0 when there is none.
Rightmost(idx) ==
    IF idx = {} THEN 0 ELSE CHOOSE i \in idx : \A j \in idx : j <= i

\* The raw log without the last occurrence of a trigger key.
PopTrigger(raw, key) ==
    LET idx == {i \in 1..Len(raw) : raw[i].key = key}
    IN  IF idx = {} THEN raw
        ELSE LET i == CHOOSE x \in idx : \A y \in idx : y <= x
             IN  SubSeq(raw, 1, i - 1) \o SubSeq(raw, i + 1, Len(raw))

(* ---------------------------------------------------------------------- *)
(* Tone placement as the engine uses the phonology                         *)
(* ---------------------------------------------------------------------- *)

\* The vowels that count for tone placement: the u of an initial qu and the
\* i of an initial gi belong to the initial consonant cluster.
RECURSIVE DropPos(_, _)
DropPos(vowels, pos) ==
    IF vowels = <<>> THEN <<>>
    ELSE IF Head(vowels).pos = pos THEN Tail(vowels)
    ELSE <<Head(vowels)>> \o DropPos(Tail(vowels), pos)

tone_vowels(buf) ==
    LET all == collect_vowels(buf)
        us == {i \in 2..Len(buf) : buf[i].key = "u"}
        noqu == IF has_qu_initial(buf) /\ Len(all) > 1
                THEN DropPos(all, (CHOOSE x \in us : \A y \in us : x <= y) - 1)
                ELSE all
    IN  IF has_gi_initial(buf) THEN DropPos(noqu, 1) ELSE noqu

\* 1-based index of the tone-bearing cell among the vowels vs of the buffer;
\* 0 when there is no vowel.
place_tone(buf, vs, modern) ==
    LET n == Len(vs)
        final == n > 0 /\ has_final_consonant(buf, vs[n].pos)
    IN  IF n = 0 THEN 0
        ELSE IF n = 2 /\ ~final /\ vs[1].key = "u" /\ vs[2].key = "a"
                /\ ~has_diacritic(vs[1]) /\ ~has_diacritic(vs[2])
             THEN vs[1].pos + 1
        ELSE find_tone_position(vs, final, modern) + 1

tone_position(buf, modern) == place_tone(buf, tone_vowels(buf), modern)

\* A faulty retone that marks the new position without clearing the old one.
retone_keep_old(buf, modern) ==
    LET m == BufMark(buf)
        p == tone_position(buf, modern)
    IN  IF m = 0 \/ p = 0 THEN buf
        ELSE [buf EXCEPT ![p].mark = m]

\* A faulty retone that leaves the mark on the cell that first received it.
retone_never(buf, modern) == buf

\* The buffer with mark m on cell p and on no other cell.
mark_only(buf, m, p) ==
    IF m = 0 \/ p = 0 THEN buf
    ELSE [i \in 1..Len(buf) |-> [buf[i] EXCEPT !.mark = IF i = p THEN m ELSE 0]]

\* Recompute which cell wears the buffer's mark.
retone(buf, modern) == mark_only(buf, BufMark(buf), tone_position(buf, modern))

(* ---------------------------------------------------------------------- *)
(* Telex decoder: one letter key applied to the buffer and the raw log     *)
(* ---------------------------------------------------------------------- *)

\* Telex tone keys and their marks: 1 acute, 2 grave, 3 hook, 4 tilde, 5 dot.
telex_mark(key) ==
    CASE key = "s" -> 1 [] key = "f" -> 2 [] key = "r" -> 3
      [] key = "x" -> 4 [] key = "j" -> 5 [] OTHER -> 0

RawKey(key, caps) == [key |-> key, caps |-> caps]

\* append_letter: one more cell, one more raw keystroke.
append_letter(buf, raw, key, caps) ==
    [buf |-> Append(buf, Cell(key, caps)),
     raw |-> Append(raw, RawKey(key, caps))]

\* A faulty revert that leaves the earlier trigger in the raw log.
revert_keep_trigger(cleared, raw, key, caps) ==
    [buf |-> Append(cleared, Cell(key, caps)),
     raw |-> Append(raw, RawKey(key, caps))]

\* A faulty revert that pops the trigger and logs no keystroke for the
\* letter it appends.
revert_unlogged(cleared, raw, key, caps) ==
    [buf |-> Append(cleared, Cell(key, caps)),
     raw |-> PopTrigger(raw, key)]

\* A revert: the modifier comes off, the earlier trigger leaves the raw log
\* and the trigger letter is appended as a literal letter.
revert_with(cleared, raw, key, caps) ==
    [buf |-> Append(cleared, Cell(key, caps)),
     raw |-> Append(PopTrigger(raw, key), RawKey(key, caps))]

\* apply_tone_mark: a second identical tone key clears the mark, any other
\* tone key sets (replaces) the buffer's one mark.
apply_tone_mark(buf, raw, key, caps, modern) ==
    LET m == telex_mark(key)
        cleared == [i \in 1..Len(buf) |-> [buf[i] EXCEPT !.mark = 0]]
        p == tone_position(buf, modern)
    IN  IF BufMark(buf) = m THEN revert_with(cleared, raw, key, caps)
        ELSE [buf |-> [cleared EXCEPT ![p].mark = m],
              raw |-> Append(raw, RawKey(key, caps))]

\* A faulty circumflex that lands on the last vowel whatever its letter.
apply_circumflex_last_vowel(buf, raw, key, caps) ==
    LET t == Rightmost({i \in 1..Len(buf) : is_vowel(buf[i].key)})
    IN  IF t = 0 THEN append_letter(buf, raw, key, caps)
        ELSE [buf |-> [buf EXCEPT ![t].tone = CIRCUMFLEX],
              raw |-> Append(raw, RawKey(key, caps))]

\* apply_vowel_modifier for a doubled a / e / o: circumflex on the rightmost
\* cell of that letter, reverted when the cell already carries it.
apply_circumflex(buf, raw, key, caps) ==
    LET SameKey(c) == c.key = key
        t == Rightmost({i \in 1..Len(buf) : SameKey(buf[i])})
    IN  IF t = 0 THEN append_letter(buf, raw, key, caps)
        ELSE IF buf[t].tone = CIRCUMFLEX
             THEN revert_with([buf EXCEPT ![t].tone = TONE_NONE], raw, key, caps)
        ELSE [buf |-> [buf EXCEPT ![t].tone = CIRCUMFLEX],
              raw |-> Append(raw, RawKey(key, caps))]

\* A faulty target choice for w: the rightmost u or o whenever the buffer
\* holds one, the a only without them.
horn_target_uo_first(buf) ==
    LET uo == Rightmost({i \in 1..Len(buf) :
                  buf[i].key \in {"o", "u"} /\ buf[i].tone = TONE_NONE})
    IN  IF uo # 0 THEN uo
        ELSE Rightmost({i \in 1..Len(buf) :
                  buf[i].key = "a" /\ buf[i].tone = TONE_NONE})

\* The cell w acts on: the rightmost a, o or u that carries no modifier;
\* in a plain u directly followed by a plain o the u comes first
\* (nguoiw -> nguoi with horned u, nguoiww -> both horned).  0 when none.
horn_target(buf) ==
    LET Free(i) == buf[i].key \in {"a", "o", "u"} /\ buf[i].tone = TONE_NONE
        t == Rightmost({i \in 1..Len(buf) : Free(i)})
    IN  IF t > 1 /\ buf[t].key = "o" /\ buf[t - 1].key = "u" /\ Free(t - 1)
        THEN t - 1
        ELSE t

\* apply_vowel_modifier for w: horn / breve on the target cell; with none
\* left, the rightmost horn is reverted; with no horn either, w is a letter.
apply_horn(buf, raw, key, caps) ==
    LET Horned(c) == c.key \in {"a", "o", "u"} /\ c.tone = HORN
        t == horn_target(buf)
        h == Rightmost({i \in 1..Len(buf) : Horned(buf[i])})
    IN  IF t # 0 THEN [buf |-> [buf EXCEPT ![t].tone = HORN],
                       raw |-> Append(raw, RawKey(key, caps))]
        ELSE IF h # 0
             THEN revert_with([buf EXCEPT ![h].tone = TONE_NONE], raw, key, caps)
        ELSE append_letter(buf, raw, key, caps)

\* apply_stroke: a d right after a d, or a trailing d after a vowel, strokes
\* the earlier d; a d typed onto a stroked d reverts the stroke.
apply_stroke(buf, raw, key, caps) ==
    LET Stroked(c) == c.key = "d" /\ c.stroke
        Plain(c) == c.key = "d" /\ ~c.stroke
        s == Rightmost({i \in 1..Len(buf) : Stroked(buf[i])})
        t == Rightmost({i \in 1..Len(buf) : Plain(buf[i])})
    IN  IF s # 0
        THEN revert_with([buf EXCEPT ![s].stroke = FALSE], raw, key, caps)
        ELSE IF t # 0 /\ (t = Len(buf) \/ is_vowel(buf[Len(buf)].key))
             THEN [buf |-> [buf EXCEPT ![t].stroke = TRUE],
                   raw |-> Append(raw, RawKey(key, caps))]
        ELSE append_letter(buf, raw, key, caps)

\* A syllable that begins with f, j, w or z takes no tone mark while foreign
\* consonants are off: its tone keys stay letters.
takes_mark(buf, allow_foreign) ==
    allow_foreign \/ buf = <<>> \/ buf[1].key \notin {"f", "j", "w", "z"}

\* The decoder's intent for one Telex letter, applied.
telex_apply(buf, raw, key, caps, modern, allow_foreign) ==
    IF key = "d" THEN apply_stroke(buf, raw, key, caps)
    ELSE IF telex_mark(key) # 0 /\ collect_vowels(buf) # <<>>
            /\ takes_mark(buf, allow_foreign)
         THEN apply_tone_mark(buf, raw, key, caps, modern)
    ELSE IF key \in {"a", "e", "o"} THEN apply_circumflex(buf, raw, key, caps)
    ELSE IF key = "w" THEN apply_horn(buf, raw, key, caps)
    ELSE append_letter(buf, raw, key, caps)

(* ---------------------------------------------------------------------- *)
(* VNI decoder: the same intents, triggered by the number keys             *)
(* ---------------------------------------------------------------------- *)

\* VNI tone keys and their marks: 1 acute, 2 grave, 3 hook, 4 tilde, 5 dot.
vni_mark(key) ==
    CASE key = "1" -> 1 [] key = "2" -> 2 [] key = "3" -> 3
      [] key = "4" -> 4 [] key = "5" -> 5 [] OTHER -> 0

\* The tone key for mark m: set the mark on cell p, or revert it when the
\* buffer already carries m.
vni_tone_mark(buf, raw, key, caps, m, p) ==
    LET cleared == [i \in 1..Len(buf) |-> [buf[i] EXCEPT !.mark = 0]]
    IN  IF BufMark(buf) = m THEN revert_with(cleared, raw, key, caps)
        ELSE [buf |-> [cleared EXCEPT ![p].mark = m],
              raw |-> Append(raw, RawKey(key, caps))]

\* 6, 7 and 8: the modifier goes on the rightmost free cell among the
\* target letters; with none free, the rightmost cell that carries it is
\* reverted; with neither, the digit is a literal character.
vni_vowel_modifier(buf, raw, key, caps, targets, tone) ==
    LET t == Rightmost({i \in 1..Len(buf) :
                           buf[i].key \in targets /\ buf[i].tone = TONE_NONE})
        h == Rightmost({i \in 1..Len(buf) :
                           buf[i].key \in targets /\ buf[i].tone = tone})
    IN  IF t # 0 THEN [buf |-> [buf EXCEPT ![t].tone = tone],
                       raw |-> Append(raw, RawKey(key, caps))]
        ELSE IF h # 0
             THEN revert_with([buf EXCEPT ![h].tone = TONE_NONE], raw, key, caps)
        ELSE append_letter(buf, raw, key, caps)

\* 7: horn on the rightmost free o or u; a plain u directly before that o
\* is horned with it (uo7 -> both horned, u7o7 likewise, ua7 -> horned u).
vni_horn(buf, raw, key, caps) ==
    LET t == Rightmost({i \in 1..Len(buf) :
                           buf[i].key \in {"o", "u"} /\ buf[i].tone = TONE_NONE})
    IN  IF t > 1 /\ buf[t].key = "o" /\ buf[t - 1].key = "u"
           /\ buf[t - 1].tone = TONE_NONE
        THEN [buf |-> [buf EXCEPT ![t].tone = HORN, ![t - 1].tone = HORN],
              raw |-> Append(raw, RawKey(key, caps))]
        ELSE vni_vowel_modifier(buf, raw, key, caps, {"o", "u"}, HORN)

\* 9: stroke on the rightmost d, reverted when it is stroked already.
vni_stroke(buf, raw, key, caps) ==
    LET t == Rightmost({i \in 1..Len(buf) : buf[i].key = "d"})
    IN  IF t = 0 THEN append_letter(buf, raw, key, caps)
        ELSE IF buf[t].stroke
             THEN revert_with([buf EXCEPT ![t].stroke = FALSE], raw, key, caps)
        ELSE [buf |-> [buf EXCEPT ![t].stroke = TRUE],
              raw |-> Append(raw, RawKey(key, caps))]

\* The decoder's intent for one VNI key, applied.
vni_apply(buf, raw, key, caps, modern, allow_foreign) ==
    IF vni_mark(key) # 0 /\ collect_vowels(buf) # <<>>
       /\ takes_mark(buf, allow_foreign)
    THEN vni_tone_mark(buf, raw, key, caps, vni_mark(key),
                       tone_position(buf, modern))
    ELSE IF key = "6"
         THEN vni_vowel_modifier(buf, raw, key, caps, {"a", "e", "o"}, CIRCUMFLEX)
    ELSE IF key = "7"
         THEN vni_horn(buf, raw, key, caps)
    ELSE IF key = "8"
         THEN vni_vowel_modifier(buf, raw, key, caps, {"a"}, HORN)
    ELSE IF key = "9" THEN vni_stroke(buf, raw, key, caps)
    ELSE append_letter(buf, raw, key, caps)

(* ---------------------------------------------------------------------- *)
(* Dictionaries: the frozen word sets, restricted to the words that the    *)
(* model's key sets can spell                                              *)
(* ---------------------------------------------------------------------- *)

\* A lower-case word from its <<base, mark>> pairs, and from plain letters.
Word(ps) == [i \in 1..Len(ps) |-> <<ps[i][1], ps[i][2], FALSE>>]

Latin(ls) == [i \in 1..Len(ls) |-> <<ls[i], 0, FALSE>>]

\* Words whose spelling is the same in both orthographies.
DictCommon ==
    { Word(<< <<"a", 1>> >>),                              \* a-acute
      Word(<< <<"a", 2>> >>),                              \* a-grave
      Word(<< <<"d", 0>>, <<"a", 0>> >>),                  \* da
      Word(<< <<"dd", 0>>, <<"a", 0>> >>),                 \* d-stroke a
      Word(<< <<"dd", 0>>, <<"a", 1>> >>),                 \* d-stroke a-acute
      Word(<< <<"s", 0>>, <<"a", 0>> >>),                  \* sa
      Word(<< <<"b", 0>>, <<"o", 1>> >>),                  \* bo-acute
      Word(<< <<"b", 0>>, <<"oo", 1>> >>),                 \* bo-circumflex-acute
      Word(<< <<"s", 0>>, <<"oo", 1>> >>),                 \* so-circumflex-acute
      Word(<< <<"ow", 0>> >>),                             \* o-horn
      Word(<< <<"s", 0>>, <<"ow", 0>> >>),                 \* so-horn
      Word(<< <<"s", 0>>, <<"ow", 1>> >>),                 \* so-horn-acute
      Word(<< <<"n", 0>>, <<"a", 2>>, <<"o", 0>> >>),      \* nao, grave on a
      Word(<< <<"n", 0>>, <<"o", 1>> >>),                  \* no-acute
      Word(<< <<"f", 0>>, <<"a", 1>> >>) }                 \* fa-acute

\* vi_daumoi.dic (modern): oa carries the mark on a.
DICT_DAUMOI == DictCommon \cup { Word(<< <<"o", 0>>, <<"a", 1>> >>) }

\* vi_daucu.dic (traditional): oa carries the mark on o.
DICT_DAUCU == DictCommon \cup { Word(<< <<"o", 1>>, <<"a", 0>> >>) }

ENGLISH_DICT ==
    { Latin(<<"a", "s">>), Latin(<<"a", "d">>), Latin(<<"a", "d", "d">>),
      Latin(<<"a", "d", "d", "s">>), Latin(<<"s", "a", "d">>),
      Latin(<<"d", "a", "d">>), Latin(<<"d", "a", "d", "s">>),
      Latin(<<"s", "o">>), Latin(<<"s", "o", "b">>), Latin(<<"b", "o", "b">>),
      Latin(<<"b", "o", "s", "s">>), Latin(<<"o", "w">>),
      Latin(<<"s", "o", "w">>), Latin(<<"w", "o", "w">>),
      Latin(<<"w", "o", "o">>), Latin(<<"o", "n">>), Latin(<<"n", "o">>),
      Latin(<<"s", "o", "n">>), Latin(<<"s", "o", "o", "n">>),
      Latin(<<"c", "l", "a", "s", "s">>) }

\* The Telex-doubles whitelist.
TELEX_DOUBLES == { Latin(<<"b", "o", "s", "s">>) }

to_lowercase(word) == [i \in 1..Len(word) |-> <<word[i][1], word[i][2], FALSE>>]

(* ---------------------------------------------------------------------- *)
(* data/vietnamese_spellcheck.rs                                           *)
(* ---------------------------------------------------------------------- *)

\* A faulty starts_with_foreign_consonant that leaves w out.
starts_with_foreign_no_w(word) ==
    IF word = <<>> THEN FALSE
    ELSE word[1][2] = 0 /\ word[1][1] \in {"z", "j", "f"}

\* A faulty starts_with_foreign_consonant that misses capital letters.
starts_with_foreign_lower_only(word) ==
    IF word = <<>> THEN FALSE
    ELSE word[1][2] = 0 /\ ~word[1][3] /\ word[1][1] \in {"z", "w", "j", "f"}

starts_with_foreign_consonant(word) ==
    IF word = <<>> THEN FALSE
    ELSE word[1][2] = 0 /\ word[1][1] \in {"z", "w", "j", "f"}

\* A faulty check whose foreign-consonant test is negated.
check_negated_foreign(word, use_modern, allow_foreign) ==
    IF word = <<>> THEN FALSE
    ELSE IF ~allow_foreign /\ ~starts_with_foreign_consonant(word) THEN FALSE
    ELSE LET dict == IF use_modern THEN DICT_DAUMOI ELSE DICT_DAUCU
         IN  to_lowercase(word) \in dict

check_with_style_and_foreign(word, use_modern, allow_foreign) ==
    IF word = <<>> THEN FALSE
    ELSE IF ~allow_foreign /\ starts_with_foreign_consonant(word) THEN FALSE
    ELSE LET dict == IF use_modern THEN DICT_DAUMOI ELSE DICT_DAUCU
         IN  to_lowercase(word) \in dict

(* ---------------------------------------------------------------------- *)
(* Auto-restore arbiter                                                    *)
(* ---------------------------------------------------------------------- *)

\* A keystroke log as plain Latin letters.
latin_form(log) == [i \in 1..Len(log) |-> key_to_char(log[i].key, log[i].caps)]

in_english_dict(word) == to_lowercase(word) \in ENGLISH_DICT

in_telex_doubles(word) == to_lowercase(word) \in TELEX_DOUBLES

\* The form the arbiter chooses for the closed syllable: vn_form is the
\* composed buffer, raw_form the keystrokes as typed, collapsed_form the raw
\* log, from which reverted triggers have been popped.
choose_form(vn_form, raw_form, collapsed_form, modern, allow_foreign) ==
    IF check_with_style_and_foreign(vn_form, modern, allow_foreign)
    THEN vn_form
    ELSE IF in_english_dict(raw_form) \/ in_telex_doubles(raw_form)
         THEN raw_form
    ELSE IF collapsed_form # raw_form /\ in_english_dict(collapsed_form)
         THEN collapsed_form
    ELSE IF ~allow_foreign /\ starts_with_foreign_consonant(raw_form)
         THEN raw_form
    ELSE vn_form

arbiter(buf, raw, typed, modern, allow_foreign) ==
    choose_form(Compose(buf), latin_form(typed), latin_form(raw), modern,
                allow_foreign)

(* ---------------------------------------------------------------------- *)
(* Rewrite engine: on_key                                                  *)
(* ---------------------------------------------------------------------- *)

Min(a, b) == IF a < b THEN a ELSE b

\* Length of the longest common prefix of two emission strings.
CommonPrefix(a, b) ==
    LET m == Min(Len(a), Len(b))
        same == {p \in 0..m : \A i \in 1..p : a[i] = b[i]}
    IN  CHOOSE p \in same : \A q \in same : q <= p

PassResult ==
    [action |-> "Pass", backspace |-> 0, chars |-> <<>>, key_consumed |-> FALSE]

\* The rewrite that turns emission e0 into e1: {backspace, chars}.
diff_result(e0, e1, consumed) ==
    LET p == CommonPrefix(e0, e1)
    IN  [action |-> "Send", backspace |-> Len(e0) - p,
         chars |-> SubSeq(e1, p + 1, Len(e1)), key_consumed |-> consumed]

\* Engine::new with the given configuration.
NewEngine(modern, auto_restore, allow_foreign) ==
    [buf |-> <<>>, raw |-> <<>>, typed |-> <<>>, hist |-> <<>>,
     emitted |-> <<>>, enabled |-> TRUE, method |-> 0, modern |-> modern,
     auto_restore |-> auto_restore, allow_foreign |-> allow_foreign]

\* The emission the next rewrite starts from: the composed syllable in
\* progress, nothing when a new syllable begins.
current_emission(e) == Compose(e.buf)

\* One snapshot on the ring; the oldest is dropped when the ring is full.
push_history(e) ==
    LET snap == [buf |-> e.buf, raw |-> e.raw, typed |-> e.typed,
                 emitted |-> e.emitted, e0 |-> current_emission(e)]
    IN  IF Len(e.hist) >= HistCap THEN Append(Tail(e.hist), snap)
        ELSE Append(e.hist, snap)

\* A letter key: decode, apply, recompute tone placement, diff.
\* The engine after a letter turned the buffer into nb and the raw log into
\* raw, and the rewrite that shows it.
emit_buffer(e, key, caps, nb, raw) ==
    [engine |-> [e EXCEPT !.buf = nb, !.raw = raw,
                          !.typed = Append(e.typed, RawKey(key, caps)),
                          !.hist = push_history(e), !.emitted = Compose(nb)],
     result |-> diff_result(current_emission(e), Compose(nb), FALSE)]

\* The form a terminator leaves on screen for the syllable in progress.
closing_form(e) ==
    IF e.auto_restore /\ e.buf # <<>>
    THEN arbiter(e.buf, e.raw, e.typed, e.modern, e.allow_foreign)
    ELSE current_emission(e)

\* Buffer overflow: the syllable in progress is closed as chosen, and the
\* key starts a new syllable, whose buffer and raw log are d.
restart_with(e, key, caps, chosen, d) ==
    [engine |-> [e EXCEPT !.buf = d.buf, !.raw = d.raw,
                          !.typed = <<RawKey(key, caps)>>,
                          !.hist = push_history(e),
                          !.emitted = chosen \o Compose(d.buf)],
     result |-> diff_result(current_emission(e), chosen \o Compose(d.buf),
                            FALSE)]

on_overflow(e, key, caps) ==
    restart_with(e, key, caps, closing_form(e),
                 IF e.method = 1
                 THEN vni_apply(<<>>, <<>>, key, caps, e.modern, e.allow_foreign)
                 ELSE telex_apply(<<>>, <<>>, key, caps, e.modern,
                                  e.allow_foreign))

\* d is the decoder's outcome; the mark is re-placed before emitting.
emit_decoded(e, key, caps, d) ==
    emit_buffer(e, key, caps, retone(d.buf, e.modern), d.raw)

\* A faulty on_letter guard that never sees a full buffer.
is_full_never(buf) == FALSE

is_full(buf) == Len(buf) >= MaxBuf

\* A key that arrives on a full buffer is the overflowing key.
on_letter(e, key, caps) ==
    IF ~e.enabled THEN [engine |-> e, result |-> PassResult]
    ELSE IF is_full(e.buf) THEN on_overflow(e, key, caps)
    ELSE IF e.method = 1
    THEN emit_decoded(e, key, caps,
                      vni_apply(e.buf, e.raw, key, caps, e.modern,
                                e.allow_foreign))
    ELSE emit_decoded(e, key, caps,
                      telex_apply(e.buf, e.raw, key, caps, e.modern,
                                  e.allow_foreign))

\* The character a printable word-break key inserts.
break_char(key) == <<key, 0, FALSE>>

\* The word-break keys that move the caret and insert nothing.
is_navigation(key) == key \in {"LEFT", "RIGHT", "UP", "DOWN"}

\* A word terminator: the arbiter chooses the form, the buffer is cleared
\* and one snapshot keeps the pre-terminator state.
close_word(e, key, chosen) ==
    [engine |-> [e EXCEPT !.buf = <<>>, !.raw = <<>>, !.typed = <<>>,
                          !.hist = push_history(e),
                          !.emitted = IF is_navigation(key) THEN chosen
                                      ELSE Append(chosen, break_char(key))],
     result |-> IF chosen = current_emission(e) THEN PassResult
                ELSE IF key = SPACE
                     THEN diff_result(current_emission(e),
                                      Append(chosen, break_char(key)), TRUE)
                ELSE diff_result(current_emission(e), chosen, FALSE)]

\* ESC: the syllable in progress is closed as latin and the key itself is
\* consumed.
revert_to_raw(e, latin) ==
    [engine |-> [e EXCEPT !.buf = <<>>, !.raw = <<>>, !.typed = <<>>,
                          !.hist = push_history(e), !.emitted = latin],
     result |-> IF latin = current_emission(e) THEN PassResult
                ELSE diff_result(current_emission(e), latin, TRUE)]

\* With the arbiter enabled ESC takes the syllable back to its raw
\* keystrokes; with the arbiter disabled nothing is emitted and the key is
\* swallowed.
on_esc(e) ==
    revert_to_raw(e, IF e.auto_restore /\ e.buf # <<>>
                     THEN latin_form(e.typed)
                     ELSE current_emission(e))

on_break(e, key) ==
    IF ~e.enabled THEN [engine |-> e, result |-> PassResult]
    ELSE IF key = ESC THEN on_esc(e)
    ELSE close_word(e, key, closing_form(e))

\* Backspace: pop one snapshot and emit the inverse rewrite; with no
\* snapshot, Pass, and the buffer loses its last cell.
on_delete(e) ==
    IF ~e.enabled THEN [engine |-> e, result |-> PassResult]
    ELSE IF e.hist # <<>> THEN
        LET snap == e.hist[Len(e.hist)]
        IN  [engine |-> [e EXCEPT !.buf = snap.buf, !.raw = snap.raw,
                                  !.typed = snap.typed, !.emitted = snap.emitted,
                                  !.hist = SubSeq(e.hist, 1, Len(e.hist) - 1)],
             result |-> diff_result(e.emitted, snap.e0, FALSE)]
    ELSE
        LET nb == SubSeq(e.buf, 1, Len(e.buf) - 1)
            keep == nb # <<>>
        IN  [engine |-> [e EXCEPT
                 !.buf = nb,
                 !.raw = IF keep THEN SubSeq(e.raw, 1, Len(e.raw) - 1) ELSE <<>>,
                 !.typed = IF keep THEN SubSeq(e.typed, 1, Len(e.typed) - 1)
                           ELSE <<>>,
                 !.emitted = SubSeq(e.emitted, 1, Len(e.emitted) - 1)],
             result |-> PassResult]

\* clear(): the buffer and the logs of the syllable in progress are
\* dropped; the history ring lives on.
clear(e) == [e EXCEPT !.buf = <<>>, !.raw = <<>>, !.typed = <<>>]

\* set_method(0 | 1): Telex or VNI; the buffer is cleared.
set_method(e, method) == [clear(e) EXCEPT !.method = method]

\* set_modern(bool): the orthography of the tone placement.
set_modern(e, modern) == [e EXCEPT !.modern = modern]

\* set_enabled(bool): a disabled engine holds no syllable and no snapshot.
set_enabled(e, enabled) ==
    IF enabled THEN [e EXCEPT !.enabled = TRUE]
    ELSE [clear(e) EXCEPT !.enabled = FALSE, !.hist = <<>>, !.emitted = <<>>]

\* The keys the selected decoder reads: the letters, and in VNI the
\* unshifted number keys.
is_decoder_key(e, key, shift) ==
    is_letter(key) \/ (e.method = 1 /\ key \in Digits /\ ~shift)

\* A key the engine does not compose: it passes, and since the host inserts
\* a character the engine never sees, the syllable in progress ends.
pass_through(e) ==
    [engine |-> IF e.enabled THEN clear(e) ELSE e, result |-> PassResult]

\* on_key_ext(key, caps, ctrl, shift): the dispatcher.  A key pressed with
\* ctrl is a host shortcut, a key outside the table is unknown: both pass.
on_key_ext(e, key, caps, ctrl, shift) ==
    IF ctrl THEN pass_through(e)
    ELSE IF key = DELETE THEN on_delete(e)
    ELSE IF is_break(key) THEN on_break(e, key)
    ELSE IF is_decoder_key(e, key, shift) THEN on_letter(e, key, caps)
    ELSE pass_through(e)

\* on_key(key, caps, ctrl) as type_word calls it: no ctrl, no shift.
on_key(e, key, caps) == on_key_ext(e, key, caps, FALSE, FALSE)

(* ---------------------------------------------------------------------- *)
(* utils.rs: type_word, the host applying each result to its screen        *)
(* ---------------------------------------------------------------------- *)

\* A faulty host that pushes the characters without popping first.
apply_send_no_pop(screen, r) == screen \o r.chars

\* A faulty host whose pop loop runs once more than r.backspace.
apply_send_pops_one_more(screen, r) ==
    SubSeq(screen, 1, Len(screen) - Min(r.backspace + 1, Len(screen)))
        \o r.chars

\* screen.pop() r.backspace times, then screen.push of every char.
apply_send(screen, r) ==
    SubSeq(screen, 1, Len(screen) - Min(r.backspace, Len(screen))) \o r.chars

\* A faulty normal backspace that removes nothing.
pop_char_keeps(screen) == screen

pop_char(screen) == SubSeq(screen, 1, Len(screen) - 1)

\* The character type_word pushes for a key that was passed through.
typed_char(key, caps) ==
    IF key_to_char(key, caps) # NoChar THEN key_to_char(key, caps)
    ELSE break_char(key)

\* A faulty ESC branch that drops the result.
type_esc_ignores_send(screen, r) == screen

\* The ESC branch: a Send is applied, nothing is inserted for the key.
type_esc(screen, r) ==
    IF r.action = "Send" THEN apply_send(screen, r) ELSE screen

\* A faulty SPACE branch that applies the result whatever its action.
type_space_always_apply(screen, r) == apply_send(screen, r)

\* The SPACE branch: a Send is applied as it is, a Pass inserts the space.
type_space(screen, r) ==
    IF r.action = "Send" THEN apply_send(screen, r)
    ELSE Append(screen, break_char(SPACE))

\* A faulty branch that never pushes the break key's character after a Send.
type_other_drops_break(screen, key, caps, r) ==
    IF r.action = "Send" THEN apply_send(screen, r)
    ELSE Append(screen, typed_char(key, caps))

\* Every other key: after a Send a break key's own character is pushed
\* unless key_consumed is set; a Pass pushes the typed character.
type_other(screen, key, caps, r) ==
    IF r.action = "Send"
    THEN (IF is_break(key) /\ ~r.key_consumed
          THEN Append(apply_send(screen, r), typed_char(key, caps))
          ELSE apply_send(screen, r))
    ELSE Append(screen, typed_char(key, caps))

\* A faulty host loop whose DELETE branch always pops one character.
type_key_plain_delete(screen, key, caps, r) ==
    IF key = DELETE THEN pop_char(screen)
    ELSE IF key = ESC THEN type_esc(screen, r)
    ELSE IF key = SPACE THEN type_space(screen, r)
    ELSE type_other(screen, key, caps, r)

\* One iteration of the loop of type_word, given the engine's result.
type_key(screen, key, caps, r) ==
    IF key = DELETE
    THEN (IF r.action = "Send" THEN apply_send(screen, r) ELSE pop_char(screen))
    ELSE IF key = ESC THEN type_esc(screen, r)
    ELSE IF key = SPACE THEN type_space(screen, r)
    ELSE type_other(screen, key, caps, r)

(* ---------------------------------------------------------------------- *)
(* The typing session: host and engine driven by key events                *)
(* ---------------------------------------------------------------------- *)

\* The configuration calls of a session, as events among its keys.
ConfigCalls ==
    {"set_method(0)", "set_method(1)", "set_enabled(false)",
     "set_enabled(true)", "clear()"}

\* A key set to type from, with the caps state of the letters, the engine
\* configuration of the session, how many keys short of MaxKeys the session
\* stops, and whether backspace is among the keys typed.  Unless a profile
\* says otherwise the method is Telex, the only word-break key is the space
\* and no configuration call is made during the session.
Profile(letters, caps, modern, auto_restore, allow_foreign, short, backspace) ==
    [letters |-> letters, caps |-> caps, modern |-> modern,
     auto_restore |-> auto_restore, allow_foreign |-> allow_foreign,
     short |-> short, backspace |-> backspace,
     method |-> 0, breaks |-> {SPACE}, calls |-> {}]

Profiles ==
    { Profile({"n", "a", "o", "s"}, FALSE, TRUE, FALSE, FALSE, 1, TRUE),
      [Profile({"a", "o", "s"}, FALSE, FALSE, FALSE, FALSE, 1, TRUE)
           EXCEPT !.breaks = {SPACE, ESC}],
      Profile({"a", "s", "f"}, FALSE, TRUE, FALSE, FALSE, 1, TRUE),
      Profile({"u", "o", "w"}, FALSE, TRUE, FALSE, FALSE, 1, TRUE),
      [Profile({"d", "a", "s"}, TRUE, TRUE, FALSE, FALSE, 1, TRUE)
           EXCEPT !.breaks = {SPACE, COMMA}],
      Profile({"a", "s"}, FALSE, TRUE, FALSE, FALSE, 0, TRUE),
      [Profile({"a", "d", "s"}, FALSE, TRUE, TRUE, FALSE, 1, TRUE)
           EXCEPT !.breaks = {SPACE, COMMA}],
      Profile({"b", "o", "s"}, TRUE, TRUE, TRUE, FALSE, 1, TRUE),
      [Profile({"a", "o", "s"}, FALSE, FALSE, TRUE, FALSE, 1, TRUE)
           EXCEPT !.breaks = {SPACE, ESC}],
      Profile({"w", "o", "s"}, FALSE, TRUE, TRUE, FALSE, 1, TRUE),
      Profile({"w", "o", "s"}, FALSE, TRUE, TRUE, TRUE, 1, TRUE),
      Profile({"c", "l", "a", "s"}, FALSE, TRUE, TRUE, FALSE, 0, FALSE),
      [Profile({"q", "m", "u", "a", "s"}, FALSE, TRUE, FALSE, FALSE, 1, FALSE)
           EXCEPT !.breaks = {}],
      [Profile({"q", "m", "u", "a", "1"}, FALSE, TRUE, FALSE, FALSE, 1, FALSE)
           EXCEPT !.breaks = {}, !.method = 1],
      [Profile({"a", "s", UNKNOWN}, FALSE, TRUE, FALSE, FALSE, 1, FALSE)
           EXCEPT !.calls = {"set_enabled(false)", "set_enabled(true)"}],
      [Profile({"a", "s", "1"}, FALSE, TRUE, FALSE, FALSE, 1, FALSE)
           EXCEPT !.calls = {"set_method(0)", "set_method(1)"}],
      [Profile({"a", "n", "o"}, FALSE, TRUE, TRUE, FALSE, 0 - 2, FALSE)
           EXCEPT !.breaks = {}] }

VARIABLES
    profile,    \* the session's key set and configuration
    engine,     \* the Engine: buffer, raw log, history ring, configuration
    screen,     \* the host's text
    committed,  \* the host's text that precedes the syllable in progress
    origins,    \* the value of committed at each snapshot on the ring
    result,     \* the Result of the last on_key call
    keys,       \* the key events so far
    past,       \* the session states before the last three key events
    probe,      \* a call of a pure function: its arguments and its result
    lib         \* lib.rs: the global ENGINE, its lock and the FFI calls

vars ==
    <<profile, engine, screen, committed, origins, result, keys, past, probe,
      lib>>

\* The variables of the typing session.
session_vars ==
    <<profile, engine, screen, committed, origins, result, keys, past>>

\* No pure function is probed during a typing session.
NoProbe == [fn |-> "none"]

\* The FFI layer is not in use: type_word drives the Engine directly.
NoLib == [loaded |-> FALSE]

KeyEvent(key, caps) == [key |-> key, caps |-> caps]

StartState(p) ==
    [engine |-> set_method(NewEngine(p.modern, p.auto_restore,
                                     p.allow_foreign), p.method),
     screen |-> <<>>, committed |-> <<>>, origins |-> <<>>,
     result |-> PassResult]

\* The session state after key event ev, for which on_key returned o and
\* the host's screen became scr.
Stepped(st, ev, o, scr) ==
    LET pushed == Len(o.engine.hist) > Len(st.engine.hist)
                  \/ (ev.key # DELETE /\ st.engine.enabled
                      /\ Len(st.engine.hist) = HistCap)
        undone == ev.key = DELETE /\ o.result.action = "Send"
        restarted == /\ st.engine.enabled
                     /\ is_decoder_key(st.engine, ev.key, FALSE)
                     /\ is_full(st.engine.buf)
    IN  [engine |-> o.engine,
         screen |-> scr,
         committed |->
             IF undone THEN st.origins[Len(st.origins)]
             ELSE IF o.engine.buf = <<>> THEN scr
             ELSE IF restarted
                  THEN SubSeq(scr, 1, Len(scr) - Len(o.engine.buf))
             ELSE st.committed,
         origins |->
             IF undone THEN SubSeq(st.origins, 1, Len(st.origins) - 1)
             ELSE IF pushed
                  THEN (IF Len(st.origins) >= HistCap
                        THEN Append(Tail(st.origins), st.committed)
                        ELSE Append(st.origins, st.committed))
             ELSE st.origins,
         result |-> o.result]

StepHost(st, ev, o) ==
    Stepped(st, ev, o, type_key(st.screen, ev.key, ev.caps, o.result))

\* A faulty FFI layer that drops the call that disables the engine.
configure_drops_disable(e, call) ==
    CASE call = "set_method(0)" -> set_method(e, 0)
      [] call = "set_method(1)" -> set_method(e, 1)
      [] call = "set_enabled(false)" -> e
      [] call = "set_enabled(true)" -> set_enabled(e, TRUE)
      [] call = "clear()" -> clear(e)

\* A faulty FFI layer that only records the method and leaves the buffer.
configure_keeps_buffer(e, call) ==
    CASE call = "set_method(0)" -> [e EXCEPT !.method = 0]
      [] call = "set_method(1)" -> [e EXCEPT !.method = 1]
      [] call = "set_enabled(false)" -> set_enabled(e, FALSE)
      [] call = "set_enabled(true)" -> set_enabled(e, TRUE)
      [] call = "clear()" -> clear(e)

\* A faulty FFI layer whose ime_clear takes the lock and does nothing.
configure_drops_clear(e, call) ==
    CASE call = "set_method(0)" -> set_method(e, 0)
      [] call = "set_method(1)" -> set_method(e, 1)
      [] call = "set_enabled(false)" -> set_enabled(e, FALSE)
      [] call = "set_enabled(true)" -> set_enabled(e, TRUE)
      [] call = "clear()" -> e

\* One configuration call on the engine.
configure(e, call) ==
    CASE call = "set_method(0)" -> set_method(e, 0)
      [] call = "set_method(1)" -> set_method(e, 1)
      [] call = "set_enabled(false)" -> set_enabled(e, FALSE)
      [] call = "set_enabled(true)" -> set_enabled(e, TRUE)
      [] call = "clear()" -> clear(e)

\* The session state after a configuration call left the engine as e: the
\* screen is untouched.
Configured(st, e) ==
    [engine |-> e,
     screen |-> st.screen,
     committed |-> IF e.buf = <<>> THEN st.screen ELSE st.committed,
     origins |-> IF e.hist = <<>> THEN <<>> ELSE st.origins,
     result |-> st.result]

\* One event: a configuration call, or a key, for which the engine's on_key
\* is followed by the host's type_word iteration.
Step(st, ev) ==
    IF ev.key \in ConfigCalls
    THEN Configured(st, configure(st.engine, ev.key))
    ELSE StepHost(st, ev, on_key(st.engine, ev.key, ev.caps))

\* The state after typing a key sequence on a fresh engine.
RECURSIVE Run(_, _)
Run(p, ks) ==
    IF ks = <<>> THEN StartState(p)
    ELSE Step(Run(p, SubSeq(ks, 1, Len(ks) - 1)), ks[Len(ks)])

Current ==
    [engine |-> engine, screen |-> screen, committed |-> committed,
     origins |-> origins, result |-> result]

Become(st, ev) ==
    /\ engine' = st.engine
    /\ screen' = st.screen
    /\ committed' = st.committed
    /\ origins' = st.origins
    /\ result' = st.result
    /\ keys' = Append(keys, ev)
    /\ past' = SubSeq(<<Current>> \o past, 1, Min(3, Len(past) + 1))
    /\ UNCHANGED <<profile, probe, lib>>

Apply(ev) == Become(Step(Current, ev), ev)

Init ==
    /\ profile \in Profiles
    /\ engine = StartState(profile).engine
    /\ screen = <<>>
    /\ committed = <<>>
    /\ origins = <<>>
    /\ result = PassResult
    /\ keys = <<>>
    /\ past = <<>>
    /\ probe = NoProbe
    /\ lib = NoLib

\* The user types a key of the key set.
TypeLetter ==
    /\ Len(keys) < MaxKeys - profile.short
    /\ \E k \in profile.letters : Apply(KeyEvent(k, profile.caps))

\* The user presses backspace.
TypeBackspace ==
    /\ profile.backspace
    /\ Len(keys) < MaxKeys - profile.short
    /\ Apply(KeyEvent(DELETE, FALSE))

\* The user presses a word-break key.
TypeBreak ==
    /\ Len(keys) < MaxKeys - profile.short
    /\ \E k \in profile.breaks : Apply(KeyEvent(k, FALSE))

\* The host changes the engine's configuration.
Configure ==
    /\ Len(keys) < MaxKeys - profile.short
    /\ \E c \in profile.calls : Apply(KeyEvent(c, FALSE))

Next == TypeLetter \/ TypeBackspace \/ TypeBreak \/ Configure

Spec == Init /\ [][Next]_vars

(* ---------------------------------------------------------------------- *)
(* Sessions that type every vowel with every modifier trigger              *)
(* ---------------------------------------------------------------------- *)

\* A Telex session and a VNI session over all the vowels that take or
\* refuse a modifier, d, and the modifier triggers, in any order.
ModifierProfiles ==
    { [Profile({"a", "e", "i", "o", "u", "d", "w"},
               FALSE, TRUE, FALSE, FALSE, 1, FALSE) EXCEPT !.breaks = {}],
      [Profile({"a", "e", "u", "d", "6", "7", "8", "9"},
               FALSE, TRUE, FALSE, FALSE, 1, FALSE)
           EXCEPT !.breaks = {}, !.method = 1] }

ModifierInit ==
    /\ profile \in ModifierProfiles
    /\ engine = StartState(profile).engine
    /\ screen = <<>>
    /\ committed = <<>>
    /\ origins = <<>>
    /\ result = PassResult
    /\ keys = <<>>
    /\ past = <<>>
    /\ probe = NoProbe
    /\ lib = NoLib

ModifierNext == TypeLetter

ModifierSpec == ModifierInit /\ [][ModifierNext]_vars

(* ---------------------------------------------------------------------- *)
(* Sessions in which the host calls clear() between keys                   *)
(* ---------------------------------------------------------------------- *)

\* Telex sessions over a vowel and a tone key, with the space, backspace
\* and clear(), with and without auto-restore.
ClearProfiles ==
    { [Profile({"a", "s"}, FALSE, TRUE, FALSE, FALSE, 1, TRUE)
           EXCEPT !.calls = {"clear()"}],
      [Profile({"a", "s"}, FALSE, TRUE, TRUE, FALSE, 1, TRUE)
           EXCEPT !.calls = {"clear()"}] }

ClearInit ==
    /\ profile \in ClearProfiles
    /\ engine = StartState(profile).engine
    /\ screen = <<>>
    /\ committed = <<>>
    /\ origins = <<>>
    /\ result = PassResult
    /\ keys = <<>>
    /\ past = <<>>
    /\ probe = NoProbe
    /\ lib = NoLib

ClearSpec == ClearInit /\ [][Next]_vars

(* ---------------------------------------------------------------------- *)
(* Sessions of vowels, modifier keys, tone keys and backspace              *)
(* ---------------------------------------------------------------------- *)

\* VNI sessions over two vowels, a tone digit and a modifier digit, and
\* Telex sessions over two vowels, a final consonant and a tone key in
\* either orthography; backspace is among the keys.
ToneProfiles ==
    { [Profile({"u", "o", "1", "7"}, FALSE, TRUE, FALSE, FALSE, 1, TRUE)
           EXCEPT !.breaks = {}, !.method = 1],
      [Profile({"u", "a", "2", "7"}, FALSE, TRUE, FALSE, FALSE, 1, TRUE)
           EXCEPT !.breaks = {}, !.method = 1],
      [Profile({"o", "a", "2", "6"}, FALSE, TRUE, FALSE, FALSE, 1, TRUE)
           EXCEPT !.breaks = {}, !.method = 1],
      [Profile({"o", "a", "n", "s"}, FALSE, FALSE, FALSE, FALSE, 1, TRUE)
           EXCEPT !.breaks = {}],
      [Profile({"u", "y", "t", "f"}, FALSE, TRUE, FALSE, FALSE, 1, TRUE)
           EXCEPT !.breaks = {}] }

ToneInit ==
    /\ profile \in ToneProfiles
    /\ engine = StartState(profile).engine
    /\ screen = <<>>
    /\ committed = <<>>
    /\ origins = <<>>
    /\ result = PassResult
    /\ keys = <<>>
    /\ past = <<>>
    /\ probe = NoProbe
    /\ lib = NoLib

ToneSpec == ToneInit /\ [][TypeLetter \/ TypeBackspace]_vars

(* ---------------------------------------------------------------------- *)
(* on_key_ext called with any key and any of caps, ctrl and shift          *)
(* ---------------------------------------------------------------------- *)

\* Keys of every kind: letters, number keys, word-break keys that print,
\* cancel or move the caret, backspace, and a keycode outside the table.
DispatchKeys == {"a", "s", "1", SPACE, ESC, "LEFT", DELETE, UNKNOWN}

\* A key event with its flags.
FlaggedEvent(key, caps, ctrl, shift) ==
    [key |-> key, caps |-> caps, ctrl |-> ctrl, shift |-> shift]

\* The flag settings of the events of a run: none, or one flag held.
DispatchFlags ==
    {<<FALSE, FALSE, FALSE>>, <<TRUE, FALSE, FALSE>>, <<FALSE, TRUE, FALSE>>,
     <<FALSE, FALSE, TRUE>>}

\* A Telex session with the arbiter on and a VNI session with it off.
DispatchInit ==
    /\ profile \in
          { Profile(DispatchKeys, FALSE, TRUE, TRUE, FALSE, 0, TRUE),
            [Profile(DispatchKeys, FALSE, TRUE, FALSE, FALSE, 0, TRUE)
                 EXCEPT !.method = 1] }
    /\ engine = StartState(profile).engine
    /\ screen = <<>>
    /\ committed = <<>>
    /\ origins = <<>>
    /\ result = PassResult
    /\ keys = <<>>
    /\ past = <<>>
    /\ probe = NoProbe
    /\ lib = NoLib

\* The host hands one key with its flags to on_key_ext and applies the
\* result.
Dispatch ==
    /\ Len(keys) < MaxDispatch
    /\ \E key \in DispatchKeys, f \in DispatchFlags :
          Become(StepHost(Current, KeyEvent(key, f[1]),
                          on_key_ext(engine, key, f[1], f[2], f[3])),
                 FlaggedEvent(key, f[1], f[2], f[3]))

DispatchNext == Dispatch

DispatchSpec == DispatchInit /\ [][DispatchNext]_vars

(* ---------------------------------------------------------------------- *)
(* Phonology::find_tone_position called on its own                         *)
(* ---------------------------------------------------------------------- *)

\* A session in which no key is typed.
IdleSession ==
    /\ profile = Profile({}, FALSE, TRUE, FALSE, FALSE, 0, FALSE)
    /\ engine = StartState(profile).engine
    /\ screen = <<>>
    /\ committed = <<>>
    /\ origins = <<>>
    /\ result = PassResult
    /\ keys = <<>>
    /\ past = <<>>

VowelKeys == {"a", "e", "i", "o", "u", "y"}

\* The result field of a call that has not returned yet.
NotRun == 0 - 1

\* One or two vowels with any modifiers, standing right after an initial
\* cluster of 0 .. MaxOnset consonants.
ToneInputs ==
    {<<Vowel(k, m, at)>> :
        k \in VowelKeys, m \in 0..2, at \in 0..MaxOnset}
    \cup
    {<<Vowel(k1, m1, at), Vowel(k2, m2, at + 1)>> :
        k1 \in VowelKeys, k2 \in VowelKeys, m1 \in 0..2, m2 \in 0..2,
        at \in 0..MaxOnset}

PhonologyInit ==
    /\ IdleSession
    /\ lib = NoLib
    /\ probe \in [fn : {"find_tone_position"}, vowels : ToneInputs,
                  has_final : BOOLEAN, modern : BOOLEAN, out : {NotRun}]

\* The call returns.
FindTonePosition ==
    /\ probe.out = NotRun
    /\ probe' = [probe EXCEPT
                    !.out = find_tone_position(probe.vowels, probe.has_final,
                                               probe.modern)]
    /\ UNCHANGED <<session_vars, lib>>

PhonologyNext == FindTonePosition

PhonologySpec == PhonologyInit /\ [][PhonologyNext]_vars

(* ---------------------------------------------------------------------- *)
(* Phonology on vowel clusters of every length                             *)
(* ---------------------------------------------------------------------- *)

MaxVowels == 5

\* count vowels at consecutive positions from at, keys and modifiers drawn
\* from ks and ms.
ClusterOf(count, ks, ms, at) ==
    {[i \in 1..count |-> Vowel(c[i][1], c[i][2], at + i - 1)] :
        c \in [1..count -> ks \X ms]}

\* The empty list, the one- and two-vowel lists, every three-vowel list,
\* and lists of four .. MaxVowels vowels over a, u with and without horn;
\* the longer lists stand first in the buffer or after MaxOnset consonants.
ClusterInputs ==
    {<<>>} \cup ToneInputs
    \cup UNION {ClusterOf(3, VowelKeys, 0..2, at) : at \in {0, MaxOnset}}
    \cup UNION {ClusterOf(n, {"a", "u"}, {0, 2}, at) :
                    n \in 4..MaxVowels, at \in {0, MaxOnset}}

ClusterInit ==
    /\ IdleSession
    /\ lib = NoLib
    /\ probe \in [fn : {"phonology"}, vowels : ClusterInputs,
                  has_final : BOOLEAN, modern : BOOLEAN, out : {NotRun},
                  classified : {FALSE}, roles : {<<>>}]

\* The call returns.
ClassifyRoles ==
    /\ ~probe.classified
    /\ probe' = [probe EXCEPT
                    !.classified = TRUE,
                    !.roles = classify_roles(probe.vowels, probe.has_final)]
    /\ UNCHANGED <<session_vars, lib>>

ClusterSpec == ClusterInit /\ [][FindTonePosition \/ ClassifyRoles]_vars

(* ---------------------------------------------------------------------- *)
(* vietnamese_spellcheck::check_with_style_and_foreign called on its own   *)
(* ---------------------------------------------------------------------- *)

\* The word with a capital first letter, and in capitals throughout.
Capitalized(word) ==
    [i \in 1..Len(word) |-> <<word[i][1], word[i][2], i = 1>>]

AllCaps(word) == [i \in 1..Len(word) |-> <<word[i][1], word[i][2], TRUE>>]

\* Words of neither dictionary, with and without a foreign initial.
NonWords ==
    { Latin(<<"z", "a">>), Latin(<<"w", "a">>), Latin(<<"j", "a">>),
      Latin(<<"f", "a">>), Latin(<<"a", "s">>), Latin(<<"a", "z">>) }

\* The empty word, and every word above in lower case, capitalized and in
\* capitals.
SpellWords ==
    LET lower == DICT_DAUMOI \cup DICT_DAUCU \cup NonWords
    IN  {<<>>} \cup lower \cup {Capitalized(w) : w \in lower}
               \cup {AllCaps(w) : w \in lower}

SpellInit ==
    /\ IdleSession
    /\ lib = NoLib
    /\ probe \in [fn : {"check_with_style_and_foreign"}, word : SpellWords,
                  use_modern : BOOLEAN, allow_foreign : BOOLEAN,
                  done : {FALSE}, out : {FALSE}]

\* The call returns.
CheckWord ==
    /\ ~probe.done
    /\ probe' = [probe EXCEPT
                    !.done = TRUE,
                    !.out = check_with_style_and_foreign(
                                probe.word, probe.use_modern,
                                probe.allow_foreign)]
    /\ UNCHANGED <<session_vars, lib>>

SpellNext == CheckWord

SpellSpec == SpellInit /\ [][SpellNext]_vars

(* ---------------------------------------------------------------------- *)
(* chars::to_char called on its own                                        *)
(* ---------------------------------------------------------------------- *)

\* The vowel keys, d, and a key that has no character of its own.
CharKeys == {"a", "e", "i", "o", "u", "y", "d", "b"}

CharsInit ==
    /\ IdleSession
    /\ lib = NoLib
    /\ probe \in [fn : {"to_char"}, key : CharKeys, caps : BOOLEAN,
                  tone : 0..MaxTone, mark : 0..MaxMark, done : {FALSE},
                  out : {NoChar}]

\* The call returns.
ToChar ==
    /\ ~probe.done
    /\ probe' = [probe EXCEPT
                    !.done = TRUE,
                    !.out = to_char(probe.key, probe.caps, probe.tone,
                                    probe.mark)]
    /\ UNCHANGED <<session_vars, lib>>

CharsNext == ToChar

CharsSpec == CharsInit /\ [][CharsNext]_vars

(* ---------------------------------------------------------------------- *)
(* utils::has_qu_initial called on its own                                 *)
(* ---------------------------------------------------------------------- *)

\* q, u, another vowel and another consonant.
ScanKeys == {"q", "u", "a", "t"}

\* Every buffer of 0 .. MaxBuf cells over ScanKeys.
ScanBuffers ==
    UNION {{[i \in 1..n |-> Cell(ks[i], FALSE)] : ks \in [1..n -> ScanKeys]} :
              n \in 0..MaxBuf}

ScanInit ==
    /\ IdleSession
    /\ lib = NoLib
    /\ probe \in [fn : {"has_qu_initial"}, buf : ScanBuffers,
                  done : {FALSE}, out : {FALSE}]

\* The call returns.
HasQuInitial ==
    /\ ~probe.done
    /\ probe' = [probe EXCEPT !.done = TRUE,
                              !.out = has_qu_initial(probe.buf)]
    /\ UNCHANGED <<session_vars, lib>>

ScanSpec == ScanInit /\ [][HasQuInitial]_vars

(* ---------------------------------------------------------------------- *)
(* lib.rs: the FFI functions on the global ENGINE, called from threads     *)
(* ---------------------------------------------------------------------- *)

\* Option<T>: None, Some(x).
None == <<>>

Some(x) == <<x>>

\* The null pointer; the pointers of Box::into_raw are 1, 2, ...
NULL == 0

\* The host's threads.
Threads == {1, 2}

\* What an FFI function leaves in ENGINE and what it hands back: the Result
\* that ime_key boxes, None for the functions that return nothing.
Outcome(E, value) == [ENGINE |-> E, value |-> value]

key_outcome(o) == Outcome(Some(o.engine), Some(o.result))

ime_init(E) == Outcome(Some(NewEngine(FALSE, FALSE, FALSE)), None)

\* A faulty ime_key that creates the engine when there is none.
ime_key_creates(E, key, caps, ctrl) ==
    IF E # None
    THEN key_outcome(on_key_ext(E[1], key, caps, ctrl, FALSE))
    ELSE key_outcome(on_key_ext(NewEngine(FALSE, FALSE, FALSE), key, caps,
                                ctrl, FALSE))

ime_key(E, key, caps, ctrl) ==
    IF E # None
    THEN key_outcome(on_key_ext(E[1], key, caps, ctrl, FALSE))
    ELSE Outcome(None, None)

ime_method(E, method) ==
    IF E # None THEN Outcome(Some(set_method(E[1], method)), None)
    ELSE Outcome(None, None)

ime_enabled(E, enabled) ==
    IF E # None THEN Outcome(Some(set_enabled(E[1], enabled)), None)
    ELSE Outcome(None, None)

ime_modern(E, modern) ==
    IF E # None THEN Outcome(Some(set_modern(E[1], modern)), None)
    ELSE Outcome(None, None)

ime_clear(E) ==
    IF E # None THEN Outcome(Some(clear(E[1])), None)
    ELSE Outcome(None, None)

\* ime_free: the live allocations afterwards.
ime_free(heap, r) == IF r # NULL THEN heap \ {r} ELSE heap

\* The calls the threads make, with their arguments.
FfiCalls ==
    {"ime_init", "ime_key(a)", "ime_key(s)", "ime_method(1)",
     "ime_enabled(false)", "ime_modern(true)", "ime_clear"}

KeyCalls == {"ime_key(a)", "ime_key(s)"}

\* The body of a call, run on the ENGINE value E that it finds.
ffi_call(E, call) ==
    CASE call = "ime_init" -> ime_init(E)
      [] call = "ime_key(a)" -> ime_key(E, "a", FALSE, FALSE)
      [] call = "ime_key(s)" -> ime_key(E, "s", FALSE, FALSE)
      [] call = "ime_method(1)" -> ime_method(E, 1)
      [] call = "ime_enabled(false)" -> ime_enabled(E, FALSE)
      [] call = "ime_modern(true)" -> ime_modern(E, TRUE)
      [] OTHER -> ime_clear(E)

\* A faulty lock that is handed out while another thread holds it.
try_lock_always(lock) == TRUE

\* ENGINE.lock(): the mutex is free.
try_lock(lock) == lock = 0

FfiInit ==
    /\ IdleSession
    /\ probe = NoProbe
    /\ lib = [loaded |-> TRUE,
              ENGINE |-> None,
              lock |-> 0,
              pc |-> [t \in Threads |-> "idle"],
              call |-> [t \in Threads |-> "none"],
              local |-> [t \in Threads |-> None],
              out |-> [t \in Threads |-> Outcome(None, None)],
              ptr |-> [t \in Threads |-> NULL],
              heap |-> {},
              next |-> 1,
              started |-> 0,
              done |-> <<>>,
              freed |-> [ptr |-> NULL, before |-> {}, after |-> {}]]

\* A thread enters an FFI function.
FfiEnter ==
    /\ lib.started < MaxCalls
    /\ \E t \in Threads, c \in FfiCalls :
          /\ lib.pc[t] = "idle"
          /\ lib' = [lib EXCEPT !.pc[t] = "enter", !.call[t] = c,
                                !.started = @ + 1]
    /\ UNCHANGED <<session_vars, probe>>

\* let mut guard = ENGINE.lock().unwrap();
FfiLock ==
    /\ \E t \in Threads :
          /\ lib.pc[t] = "enter"
          /\ try_lock(lib.lock)
          /\ lib' = [lib EXCEPT !.pc[t] = "locked", !.lock = t]
    /\ UNCHANGED <<session_vars, probe>>

\* The function reads *guard.
FfiRead ==
    /\ \E t \in Threads :
          /\ lib.pc[t] = "locked"
          /\ lib' = [lib EXCEPT !.pc[t] = "read", !.local[t] = lib.ENGINE]
    /\ UNCHANGED <<session_vars, probe>>

\* The state of lib after thread t wrote the outcome b of its body;
\* ime_key boxes its Result.
Written(t, b) ==
    [lib EXCEPT !.pc[t] = "written",
                !.ENGINE = b.ENGINE,
                !.out[t] = b,
                !.ptr[t] = IF b.value # None THEN lib.next ELSE NULL,
                !.heap = IF b.value # None THEN @ \cup {lib.next} ELSE @,
                !.next = IF b.value # None THEN @ + 1 ELSE @]

\* The function runs its body on what it read and writes the engine back.
FfiWrite ==
    /\ \E t \in Threads :
          /\ lib.pc[t] = "read"
          /\ lib' = Written(t, ffi_call(lib.local[t], lib.call[t]))
    /\ UNCHANGED <<session_vars, probe>>

\* The guard goes out of scope and the function returns.
FfiReturn ==
    /\ \E t \in Threads :
          /\ lib.pc[t] = "written"
          /\ lib' = [lib EXCEPT
                        !.pc[t] = "idle",
                        !.lock = 0,
                        !.done = Append(@, [thread |-> t,
                                            call |-> lib.call[t],
                                            before |-> lib.local[t],
                                            after |-> lib.out[t].ENGINE,
                                            value |-> lib.out[t].value,
                                            ptr |-> lib.ptr[t]])]
    /\ UNCHANGED <<session_vars, probe>>

\* A thread calls ime_free on null or on a pointer it got from ime_key.
FfiFree ==
    /\ \E t \in Threads, r \in {NULL} \cup lib.heap :
          /\ lib.pc[t] = "idle"
          /\ lib' = [lib EXCEPT
                        !.heap = ime_free(lib.heap, r),
                        !.freed = [ptr |-> r, before |-> lib.heap,
                                   after |-> ime_free(lib.heap, r)]]
    /\ UNCHANGED <<session_vars, probe>>

FfiNext ==
    FfiEnter \/ FfiLock \/ FfiRead \/ FfiWrite \/ FfiReturn \/ FfiFree

FfiSpec == FfiInit /\ [][FfiNext]_vars

(* ---------------------------------------------------------------------- *)
(* Properties                                                              *)
(* ---------------------------------------------------------------------- *)

LastKey == keys[Len(keys)]

\* The state before the last key event, and before the last two.
Before1 == past[1]

Before2 == past[2]

SpaceChar == <<"SPACE", 0, FALSE>>

\* The selected Vietnamese dictionary of an engine.
SelectedDict(e) == IF e.modern THEN DICT_DAUMOI ELSE DICT_DAUCU

\* C1: after every non-terminator key the host screen is the text before the
\* syllable followed by the composed buffer; after every terminator it is the
\* text before the syllable, the form the arbiter chose, and the terminator.
C1_DiffCorrectness ==
    keys # <<>> =>
        IF LastKey.key = SPACE
        THEN LET pre == Before1
                 e == pre.engine
                 chosen == IF e.auto_restore /\ e.buf # <<>>
                           THEN arbiter(e.buf, e.raw, e.typed, e.modern,
                                        e.allow_foreign)
                           ELSE Compose(e.buf)
             IN  screen = pre.committed \o chosen \o <<SpaceChar>>
        ELSE screen = committed \o Compose(engine.buf)

\* C1 witness: a terminator whose result rewrote the composed syllable, and a
\* letter whose result replaced characters already on screen.
C1_Witness ==
    /\ keys # <<>>
    /\ LastKey.key = SPACE
    /\ result.action = "Send"
    /\ result.backspace > 0
    /\ Len(screen) > 3

\* C2: a backspace typed right after a key K that produced an emission brings
\* the buffer, the raw log, the engine's record of its emission and the host
\* screen back to what they were before K, so that typing on gives what it
\* would have given without K.
C2_BackspaceUndoesLastKey ==
    (/\ Len(keys) >= 2
     /\ LastKey.key = DELETE
     /\ keys[Len(keys) - 1].key # DELETE)
    => LET pre == Before2
       IN  /\ engine.buf = pre.engine.buf
           /\ engine.raw = pre.engine.raw
           /\ engine.typed = pre.engine.typed
           /\ current_emission(engine) = current_emission(pre.engine)
           /\ screen = pre.screen
           /\ committed = pre.committed

\* C2 witness: the undone key was a tone key that had rewritten a vowel in a
\* buffer of several cells.
C2_Witness ==
    /\ Len(keys) >= 4
    /\ LastKey.key = DELETE
    /\ telex_mark(keys[Len(keys) - 1].key) # 0
    /\ BufMark(Before1.engine.buf) # 0
    /\ BufMark(engine.buf) = 0
    /\ Len(engine.buf) >= 2
    /\ result.action = "Send"

\* The number of cells of a buffer that carry a tone mark.
MarkedCells(buf) == Cardinality({i \in 1..Len(buf) : buf[i].mark # 0})

\* C3: at most one cell of the buffer carries a tone mark; a tone key typed on
\* a buffer already marked with a different tone leaves the new mark as the
\* only one.
C3_SingleToneMark ==
    /\ MarkedCells(engine.buf) <= 1
    /\ (/\ keys # <<>>
        /\ telex_mark(LastKey.key) # 0
        /\ Before1.engine.enabled
        /\ Before1.engine.method = 0
        /\ BufMark(Before1.engine.buf) # 0
        /\ BufMark(Before1.engine.buf) # telex_mark(LastKey.key))
       => (/\ MarkedCells(engine.buf) = 1
           /\ BufMark(engine.buf) = telex_mark(LastKey.key)
           /\ Len(engine.buf) = Len(Before1.engine.buf))

\* C3 witness: a-s-f, the grave replaced the acute.
C3_Witness ==
    /\ Len(keys) = 3
    /\ keys[1].key = "a" /\ keys[2].key = "s" /\ keys[3].key = "f"
    /\ Compose(engine.buf) = << <<"a", 2, FALSE>> >>
    /\ screen = << <<"a", 2, FALSE>> >>

\* C4: after a terminator the buffer is empty, one snapshot holding the state
\* before the terminator was pushed, and a backspace right after the
\* terminator brings back the buffer and the screen of before it.
C4_TerminatorCommits ==
    /\ (keys # <<>> /\ LastKey.key = SPACE /\ Before1.engine.enabled)
       => LET pre == Before1
          IN  /\ engine.buf = <<>>
              /\ engine.raw = <<>>
              /\ engine.hist # <<>>
              /\ engine.hist[Len(engine.hist)].buf = pre.engine.buf
              /\ engine.hist[Len(engine.hist)].raw = pre.engine.raw
              /\ Len(engine.hist) = Min(Len(pre.engine.hist) + 1, HistCap)
              /\ \A i \in 1..(Len(engine.hist) - 1) :
                     engine.hist[i] =
                         pre.engine.hist[Len(pre.engine.hist) -
                                         (Len(engine.hist) - 1) + i]
    /\ (/\ Len(keys) >= 2
        /\ LastKey.key = DELETE
        /\ keys[Len(keys) - 1].key = SPACE)
       => LET pre == Before2
          IN  /\ engine.buf = pre.engine.buf
              /\ screen = pre.screen
              /\ Len(engine.hist) = Len(Before1.engine.hist) - 1

\* C4 witness: a composed syllable, a terminator, and the backspace that
\* reopened the syllable.
C4_Witness ==
    /\ Len(keys) >= 4
    /\ LastKey.key = DELETE
    /\ keys[Len(keys) - 1].key = SPACE
    /\ Before1.engine.buf = <<>>
    /\ BufMark(engine.buf) # 0
    /\ Len(engine.buf) >= 2

ToneKeys == {"s", "f", "r", "x", "j"}

\* Consonant keys that are neither tone keys nor modifier triggers.
PlainFinals == {k \in Letters : is_consonant(k)} \ (ToneKeys \cup {"d", "w"})

\* The keys of ks are initial consonants followed by one or two different
\* vowels.
IsOnsetAndVowels(ks) ==
    \E k \in 0..(Len(ks) - 1) :
        /\ \A i \in 1..k : is_consonant(ks[i].key)
        /\ \A i \in (k + 1)..Len(ks) : is_vowel(ks[i].key)
        /\ Len(ks) - k <= 2
        /\ (Len(ks) - k = 2 => ks[k + 1].key # ks[k + 2].key)

\* What may follow the tone key of a syllable begun by ks: the second vowel
\* of an open diphthong, a final consonant, both, or the modifier key of one
\* of the vowels.
IsSyllableRest(ks, q) ==
    LET nv == Cardinality({i \in 1..Len(ks) : is_vowel(ks[i].key)})
        HasKey(k) == \E i \in 1..Len(ks) : ks[i].key = k
    IN  \/ /\ Len(q) = 1 /\ nv = 1
           /\ is_vowel(q[1].key) /\ ~HasKey(q[1].key)
        \/ /\ Len(q) = 1 /\ q[1].key \in PlainFinals
        \/ /\ Len(q) = 2 /\ nv = 1
           /\ is_vowel(q[1].key) /\ ~HasKey(q[1].key)
           /\ q[2].key \in PlainFinals
        \/ /\ Len(q) = 1 /\ q[1].key \in {"a", "e", "o"} /\ HasKey(q[1].key)
        \/ /\ Len(q) = 1 /\ q[1].key = "w"
           /\ (HasKey("a") \/ HasKey("o") \/ HasKey("u"))

\* C5: in a syllable the tone key may be typed right after the first vowel,
\* after the vowel cluster, after the final consonant, or before or after a
\* vowel-modifier key: moving it to the end of a syllable that fits the
\* buffer gives the same buffer and the same screen.
C5_ToneKeyOrderIndependent ==
    \A i \in 2..(Len(keys) - 1) :
        LET ks == SubSeq(keys, 1, i - 1)
            q == SubSeq(keys, i + 1, Len(keys))
        IN  (/\ keys[i].key \in ToneKeys
             /\ IsOnsetAndVowels(ks)
             /\ IsSyllableRest(ks, q)
             /\ ~is_full(Run(profile, ks \o q).engine.buf))
            => LET late == Run(profile, ks \o q \o <<keys[i]>>)
               IN  /\ late.engine.buf = engine.buf
                   /\ late.screen = screen

\* C5 witness: n-a-s-o, the acute typed between the vowels sits where n-a-o-s
\* puts it; and a tone typed before the final consonant of a two-vowel
\* syllable has moved to the second vowel.
C5_Witness ==
    /\ Len(keys) = 4
    /\ keys[1].key = "o" /\ keys[2].key = "s"
    /\ keys[3].key = "a" /\ keys[4].key = "n"
    /\ Compose(engine.buf) =
          << <<"o", 0, FALSE>>, <<"a", 1, FALSE>>, <<"n", 0, FALSE>> >>
    /\ screen = Run(profile, <<keys[1], keys[3], keys[4], keys[2]>>).screen

Before3 == past[3]

\* The last two keys are the same letter and the first of them changed a
\* cell of the buffer instead of adding one: it acted as a modifier trigger.
\* The buffer has room for one more cell.
TriggerTypedTwice ==
    /\ Len(keys) >= 2
    /\ is_letter(LastKey.key)
    /\ keys[Len(keys) - 1] = LastKey
    /\ Len(Before1.engine.buf) = Len(Before2.engine.buf)
    /\ ~is_full(Before1.engine.buf)
    /\ Before1.engine.buf # Before2.engine.buf

\* The buffer and the raw log hold what they held before the first trigger
\* plus the trigger letter once, as a literal letter (a tone mark of the
\* buffer sits where the placement rule puts it after the new letter).
SelfCancelled ==
    /\ engine.buf =
           retone(Append(Before2.engine.buf, Cell(LastKey.key, LastKey.caps)),
                  engine.modern)
    /\ engine.raw =
           Append(Before2.engine.raw, RawKey(LastKey.key, LastKey.caps))

ArbiterRan ==
    /\ keys # <<>>
    /\ LastKey.key = SPACE
    /\ Before1.engine.auto_restore
    /\ Before1.engine.buf # <<>>

\* The screen shows the text before the syllable, then form, then the space.
Shows(form) == screen = Before1.committed \o form \o <<SpaceChar>>

\* The three forms of the closed syllable, lower-cased letter by letter.
Lower(word) == [i \in 1..Len(word) |-> <<word[i][1], word[i][2], FALSE>>]

ClosedVn == Compose(Before1.engine.buf)

ClosedFull ==
    [i \in 1..Len(Before1.engine.typed) |->
        <<Before1.engine.typed[i].key, 0, Before1.engine.typed[i].caps>>]

ClosedCollapsed ==
    [i \in 1..Len(Before1.engine.raw) |->
        <<Before1.engine.raw[i].key, 0, Before1.engine.raw[i].caps>>]

\* C8: with auto-restore on, a syllable whose composed form is a word of the
\* selected Vietnamese dictionary is kept at the terminator, whatever the
\* English dictionary and the whitelist say about its keystrokes.
C8_VietnameseWins ==
    (ArbiterRan /\ Lower(ClosedVn) \in SelectedDict(Before1.engine))
    => Shows(ClosedVn)

\* C8 witness: a composed word of the selected dictionary whose keystrokes
\* spell an English word was kept, mark and all.
C8_Witness ==
    /\ ArbiterRan
    /\ Lower(ClosedVn) \in SelectedDict(Before1.engine)
    /\ Lower(ClosedFull) \in ENGLISH_DICT
    /\ BufMark(Before1.engine.buf) # 0
    /\ Shows(ClosedVn)
    /\ ClosedVn # ClosedFull

\* The composed form of the closed syllable is no valid Vietnamese word.
ClosedInvalid ==
    ~check_with_style_and_foreign(ClosedVn, Before1.engine.modern,
                                  Before1.engine.allow_foreign)

ForeignInitial ==
    /\ ~Before1.engine.allow_foreign
    /\ ClosedFull[1][1] \in {"z", "w", "j", "f"}

\* C9: when the composed form is no valid Vietnamese word the first rule that
\* applies decides: (b) keystrokes in the English dictionary or the
\* whitelist give the keystrokes; (c) a collapsed form that differs and is
\* English gives the collapsed form; (d) a foreign initial with foreign
\* consonants off gives the keystrokes; (e) otherwise the composed form stays.
C9_ArbiterRuleOrder ==
    (ArbiterRan /\ ClosedInvalid)
    => IF Lower(ClosedFull) \in ENGLISH_DICT \cup TELEX_DOUBLES
       THEN Shows(ClosedFull)
       ELSE IF ClosedCollapsed # ClosedFull
               /\ Lower(ClosedCollapsed) \in ENGLISH_DICT
       THEN Shows(ClosedCollapsed)
       ELSE IF ForeignInitial
       THEN Shows(ClosedFull)
       ELSE Shows(ClosedVn)

\* C9 witness: rule (d) decided after (b) and (c) had not applied, and the
\* screen changed from the composed form to the keystrokes.
C9_Witness ==
    /\ ArbiterRan
    /\ ClosedInvalid
    /\ Lower(ClosedFull) \notin ENGLISH_DICT \cup TELEX_DOUBLES
    /\ ForeignInitial
    /\ ClosedVn # ClosedFull
    /\ Shows(ClosedFull)
    /\ result.action = "Send"

\* The closed syllable ends in a doubled tone key whose second press took
\* the mark off.
EndsInDoubledToneKey ==
    /\ ArbiterRan
    /\ Len(keys) >= 4
    /\ keys[Len(keys) - 1].key \in ToneKeys
    /\ keys[Len(keys) - 2] = keys[Len(keys) - 1]
    /\ BufMark(Before2.engine.buf) = telex_mark(keys[Len(keys) - 1].key)
    /\ Len(Before1.engine.buf) = Len(Before2.engine.buf) + 1

\* C10 as stated: a word ending in a doubled tone key shows its full
\* keystrokes when they are in the whitelist, and the self-cancelled buffer
\* whenever they are not.
C10_Original ==
    EndsInDoubledToneKey
    => IF Lower(ClosedFull) \in TELEX_DOUBLES
       THEN Shows(ClosedFull)
       ELSE Shows(ClosedVn)

\* C10: a word ending in a doubled tone key shows its full keystrokes when
\* they are in the whitelist or in the English dictionary; the
\* self-cancelled buffer is kept when they are in neither, the popped raw log
\* is no English word and no foreign initial sends the word back.
C10_DoubledToneKeyAtEnd ==
    EndsInDoubledToneKey
    => /\ (Lower(ClosedFull) \in TELEX_DOUBLES \cup ENGLISH_DICT
           => Shows(ClosedFull))
       /\ (/\ Lower(ClosedFull) \notin TELEX_DOUBLES \cup ENGLISH_DICT
           /\ Lower(ClosedCollapsed) \notin ENGLISH_DICT
           /\ ~ForeignInitial)
          => Shows(ClosedVn)

\* C10 witness: a whitelisted word typed in capitals got its second trigger
\* letter back at the terminator.
C10_Witness ==
    /\ EndsInDoubledToneKey
    /\ Lower(ClosedFull) \in TELEX_DOUBLES
    /\ Len(Before1.engine.raw) < Len(Before1.engine.typed)
    /\ Shows(ClosedFull)
    /\ ClosedFull # ClosedVn
    /\ ClosedFull[1][3]

\* The last event was a word-break key handled by an enabled engine with
\* english_auto_restore off.
BreakWithoutRestore ==
    /\ keys # <<>>
    /\ is_break(LastKey.key)
    /\ Before1.engine.enabled
    /\ ~Before1.engine.auto_restore

\* C11: with english_auto_restore off the result for a word-break key
\* deletes nothing and sends nothing: what was on screen, the composed
\* syllable included, is still there, followed by the key's own character
\* (by nothing for ESC).
C11_BreakKeepsWord ==
    BreakWithoutRestore
    => /\ result.action = "Pass"
       /\ result.backspace = 0
       /\ Before1.screen = Before1.committed \o Compose(Before1.engine.buf)
       /\ SubSeq(screen, 1, Len(Before1.screen)) = Before1.screen
       /\ screen = IF LastKey.key = ESC THEN Before1.screen
                   ELSE Append(Before1.screen, break_char(LastKey.key))

\* C11 witness: a marked syllable of several cells was closed by a comma,
\* after an earlier word was closed by a space.
C11_Witness ==
    /\ BreakWithoutRestore
    /\ LastKey.key = COMMA
    /\ BufMark(Before1.engine.buf) # 0
    /\ Len(Before1.engine.buf) >= 2
    /\ Len(keys) >= 5
    /\ \E i \in 1..Len(keys) : keys[i].key = SPACE
    /\ screen[Len(screen)] = break_char(COMMA)

\* The buffer is an open syllable of initial consonants, u and a, with no
\* diacritic on any cell.
IsOpenUa(buf) ==
    /\ Len(buf) >= 2
    /\ buf[Len(buf) - 1].key = "u"
    /\ buf[Len(buf)].key = "a"
    /\ \A i \in 1..(Len(buf) - 2) : is_consonant(buf[i].key)
    /\ \A i \in 1..Len(buf) :
           buf[i].tone = TONE_NONE /\ buf[i].mark = 0 /\ ~buf[i].stroke

\* The tone mark a key stands for in the engine's input method, 0 for none.
ToneOfKey(e, key) == IF e.method = 1 THEN vni_mark(key) ELSE telex_mark(key)

MedialPairs ==
    {<<"o", "a">>, <<"o", "e">>, <<"u", "a">>, <<"u", "e">>, <<"u", "y">>}

\* The probed call was given two vowels without diacritic that form a
\* medial pair, and has returned.
MedialPairPlaced ==
    /\ probe.out # NotRun
    /\ Len(probe.vowels) = 2
    /\ <<probe.vowels[1].key, probe.vowels[2].key>> \in MedialPairs
    /\ probe.vowels[1].modifier = 0
    /\ probe.vowels[2].modifier = 0

\* C13: for a medial pair without diacritic in an open syllable,
\* find_tone_position returns the second vowel under modern orthography and
\* the first under traditional; with a final consonant the result is the
\* same for both values of the modern flag.
C13_MedialPairByOrthography ==
    MedialPairPlaced
    => /\ (~probe.has_final /\ probe.modern)
              => probe.out = probe.vowels[2].pos
       /\ (~probe.has_final /\ ~probe.modern)
              => probe.out = probe.vowels[1].pos
       /\ probe.has_final
              => probe.out = find_tone_position(probe.vowels, TRUE,
                                                ~probe.modern)

\* C13 witness: u, y after one consonant in an open syllable, traditional
\* orthography: the first vowel was returned.
C13_Witness ==
    /\ MedialPairPlaced
    /\ probe.vowels[1].key = "u" /\ probe.vowels[2].key = "y"
    /\ probe.vowels[1].pos = 1
    /\ ~probe.has_final /\ ~probe.modern
    /\ probe.out = 1

\* The engine was disabled by the last set_enabled call before the last
\* event.
DisabledBeforeLastKey ==
    LET calls == {i \in 1..(Len(keys) - 1) :
                     keys[i].key \in {"set_enabled(false)", "set_enabled(true)"}}
    IN  /\ calls # {}
        /\ keys[Rightmost(calls)].key = "set_enabled(false)"

\* C14: while the engine is disabled every letter key returns Pass, never
\* Send: the engine composes nothing and the host inserts the plain letter.
C14_DisabledPasses ==
    (/\ keys # <<>>
     /\ is_letter(LastKey.key)
     /\ DisabledBeforeLastKey)
    => /\ ~Before1.engine.enabled
       /\ result = PassResult
       /\ engine = Before1.engine
       /\ screen = Append(Before1.screen,
                          key_to_char(LastKey.key, LastKey.caps))

\* C14 witness: a-s composed while enabled; after the engine was disabled
\* the same two keys stay two plain letters.
C14_Witness ==
    /\ Len(keys) = 5
    /\ keys[1].key = "a" /\ keys[2].key = "s"
    /\ keys[3].key = "set_enabled(false)"
    /\ keys[4].key = "a" /\ keys[5].key = "s"
    /\ result.action = "Pass"
    /\ screen = << <<"a", 1, FALSE>>, <<"a", 0, FALSE>>, <<"s", 0, FALSE>> >>

\* The last event is a key the decoder reads, typed right after a
\* set_method call on an enabled engine.
KeyAfterMethodChange ==
    /\ Len(keys) >= 2
    /\ keys[Len(keys) - 1].key \in {"set_method(0)", "set_method(1)"}
    /\ Before1.engine.enabled
    /\ (is_letter(LastKey.key) \/ LastKey.key \in Digits)

\* C15: set_method clears the buffer, so the key typed right after the
\* change, a modifier trigger included, deletes nothing and leaves every
\* character typed before the change as it was; it starts a new syllable.
C15_MethodChangeClears ==
    KeyAfterMethodChange
    => /\ Before1.engine.buf = <<>>
       /\ Before1.engine.raw = <<>>
       /\ Before1.screen = Before2.screen
       /\ result.backspace = 0
       /\ screen = Append(Before2.screen,
                          key_to_char(LastKey.key, LastKey.caps))
       /\ Len(engine.buf) <= 1

\* C15 witness: a typed in Telex, the method set to VNI, then the VNI acute
\* key: the a stays plain and the digit is a character.
C15_Witness ==
    /\ Len(keys) = 3
    /\ keys[1].key = "a"
    /\ keys[2].key = "set_method(1)"
    /\ keys[3].key = "1"
    /\ engine.method = 1
    /\ screen = << <<"a", 0, FALSE>>, <<"1", 0, FALSE>> >>

\* The word-break keys that insert a character.
is_printable_break(key) == is_break(key) /\ key # ESC /\ ~is_navigation(key)

\* The host protocol for a word-break key: a Pass inserts the character, a
\* Send is applied and the character appended unless key_consumed is set.
BreakProtocol(scr, key, r) ==
    IF r.action = "Pass" THEN Append(scr, break_char(key))
    ELSE IF r.key_consumed THEN apply_send(scr, r)
    ELSE Append(apply_send(scr, r), break_char(key))

\* C16: after a printable word-break key the screen, which is what the
\* protocol makes of the result, shows the text before the syllable, the
\* chosen word form and the break character once.
C16_ExactlyOneBreakChar ==
    (/\ keys # <<>>
     /\ is_printable_break(LastKey.key)
     /\ Before1.engine.enabled)
    => LET chosen == closing_form(Before1.engine)
           c == break_char(LastKey.key)
       IN  /\ screen = BreakProtocol(Before1.screen, LastKey.key, result)
           /\ screen = Before1.committed \o chosen \o <<c>>
           /\ \A i \in 1..Len(chosen) : chosen[i] # c

\* C16 witness: a comma after a-d-d-s: the result rewrote the composed
\* syllable to the English word without the comma, and the host appended
\* the comma once.
C16_Witness ==
    /\ keys # <<>>
    /\ LastKey.key = COMMA
    /\ result.action = "Send"
    /\ result.backspace > 0
    /\ ~result.key_consumed
    /\ Len(screen) >= 3
    /\ screen[Len(screen)] = break_char(COMMA)
    /\ screen[Len(screen) - 1] # break_char(COMMA)
    /\ result.chars[Len(result.chars)] # break_char(COMMA)

\* ESC was pressed on an enabled engine whose buffer was not empty.
EscOnSyllable ==
    /\ keys # <<>>
    /\ LastKey.key = ESC
    /\ Before1.engine.enabled
    /\ Before1.engine.buf # <<>>

\* The screen shows the syllable as its raw keystrokes in plain Latin
\* letters, with no character for ESC, and the buffer is empty.
RevertedToRaw ==
    /\ screen = Before1.committed \o latin_form(Before1.engine.typed)
    /\ engine.buf = <<>>
    /\ engine.raw = <<>>

C18_BackspaceWithoutSnapshot ==
    (/\ keys # <<>>
     /\ LastKey.key = DELETE
     /\ Before1.engine.enabled)
    => /\ Before1.engine.hist = <<>>
          => /\ result = PassResult
             /\ screen = SubSeq(Before1.screen, 1, Len(Before1.screen) - 1)
             /\ engine.hist = <<>>
       /\ result.action = "Send"
          => /\ Before1.engine.hist # <<>>
             /\ Len(engine.hist) = Len(Before1.engine.hist) - 1

\* C18 witness: after the ring had given back both of its snapshots, one
\* more backspace passed and the host deleted the remaining character.
C18_Witness ==
    /\ Len(keys) >= 6
    /\ LastKey.key = DELETE
    /\ keys[Len(keys) - 1].key = DELETE
    /\ Before2.result.action = "Send"
    /\ Before1.result.action = "Send"
    /\ Before1.engine.hist = <<>>
    /\ Before1.screen # <<>>
    /\ result.action = "Pass"
    /\ Len(screen) = Len(Before1.screen) - 1

\* A well-formed Result record; Pass carries nothing.
IsResult(r) ==
    /\ r.action \in {"Pass", "Send"}
    /\ r.backspace \in Nat
    /\ DOMAIN r.chars = 1..Len(r.chars)
    /\ r.key_consumed \in BOOLEAN
    /\ r.action = "Pass" => r = PassResult

\* C19: in every reachable state on_key_ext returns a result for every key
\* and every combination of caps, ctrl and shift, and for a keycode outside
\* the table the result is Pass; the host then inserts the key's character.
C19_TotalAndUnknownPasses ==
    /\ \A key \in DispatchKeys, caps \in BOOLEAN, ctrl \in BOOLEAN,
          shift \in BOOLEAN :
           /\ IsResult(on_key_ext(engine, key, caps, ctrl, shift).result)
           /\ key = UNKNOWN
              => on_key_ext(engine, key, caps, ctrl, shift).result = PassResult
    /\ (keys # <<>> /\ LastKey.key = UNKNOWN)
       => /\ result = PassResult
          /\ screen = Append(Before1.screen, break_char(UNKNOWN))

\* C19 witness: an unknown keycode arrived, with shift held, while a
\* composed syllable was in the buffer, and passed.
C19_Witness ==
    /\ Len(keys) = 2
    /\ keys[1].key = "a"
    /\ LastKey.key = UNKNOWN
    /\ LastKey.shift
    /\ Before1.engine.buf # <<>>
    /\ result = PassResult
    /\ Len(screen) = 2

\* The last key was a letter (or a VNI number key) that arrived on a full
\* buffer of an enabled engine.
KeyOnFullBuffer ==
    /\ keys # <<>>
    /\ Before1.engine.enabled
    /\ is_decoder_key(Before1.engine, LastKey.key, FALSE)
    /\ is_full(Before1.engine.buf)

\* The buffer, the raw logs and the screen are what a word-break key that
\* prints nothing, followed by the last key, would have left.
AsIfTerminatorFirst ==
    LET t == on_break(Before1.engine, "LEFT")
        n == on_letter(t.engine, LastKey.key, LastKey.caps)
    IN  /\ engine.buf = n.engine.buf
        /\ engine.raw = n.engine.raw
        /\ engine.typed = n.engine.typed
        /\ screen = type_other(type_esc(Before1.screen, t.result),
                               LastKey.key, LastKey.caps, n.result)

\* C20: the buffer never holds more than MaxBuf cells; a letter key that
\* arrives on a full buffer is handled as a word terminator followed by that
\* key, and afterwards the buffer holds exactly that one letter.
C20_BufferBounded ==
    /\ Len(engine.buf) <= MaxBuf
    /\ KeyOnFullBuffer
       => /\ AsIfTerminatorFirst
          /\ Len(engine.buf) = 1
          /\ engine.buf[1].key = LastKey.key
          /\ Len(screen) = Len(Before1.screen) + 1

\* C20 witness: a key arrived on a full buffer that held a composed
\* character; the screen kept the closed word and the buffer holds the new
\* letter alone.
C20_Witness ==
    /\ KeyOnFullBuffer
    /\ Len(keys) > MaxBuf + 1
    /\ Compose(Before1.engine.buf) # latin_form(Before1.engine.typed)
    /\ result.action = "Send"
    /\ engine.buf = <<Cell(LastKey.key, LastKey.caps)>>
    /\ SubSeq(screen, 1, Len(screen) - 1) = Before1.screen

\* C21: the raw log is at least as long as the buffer in every reachable
\* state: after letters and modifier keys, after a self-cancel revert (the
\* trigger leaves the raw log, the trigger letter joins the buffer), after
\* word breaks, overflow, configuration calls and backspace; the same holds
\* for every snapshot a backspace can restore.
C21_RawLogCoversBuffer ==
    /\ Len(engine.raw) >= Len(engine.buf)
    /\ \A i \in 1..Len(engine.hist) :
           Len(engine.hist[i].raw) >= Len(engine.hist[i].buf)

\* C21 witness: a trigger typed twice was reverted, which left the raw log
\* exactly as long as the buffer and shorter than the keys typed; then a
\* backspace undid the revert and the raw log holds the trigger again.
C21_Witness ==
    /\ Len(keys) >= 4
    /\ LastKey.key = DELETE
    /\ result.action = "Send"
    /\ keys[Len(keys) - 1] = keys[Len(keys) - 2]
    /\ Len(Before1.engine.raw) = Len(Before1.engine.buf)
    /\ Len(Before1.engine.raw) < Len(Before1.engine.typed)
    /\ Len(Before1.engine.buf) = Len(Before2.engine.buf) + 1
    /\ engine.buf = Before2.engine.buf
    /\ Len(engine.raw) > Len(engine.buf)

\* The modifier of cell c fits its letter.
ModifierFits(c) ==
    /\ c.tone = CIRCUMFLEX => c.key \in {"a", "e", "o"}
    /\ c.tone = HORN => c.key \in {"a", "o", "u"}
    /\ c.stroke => c.key = "d"

\* C22: in every reachable state a cell carries the circumflex only on a, e
\* or o, the horn only on a, o or u, and the stroke only on d, whatever
\* order of letters and modifier triggers was typed, in Telex and in VNI.
C22_ModifierFitsLetter ==
    /\ \A i \in 1..Len(engine.buf) : ModifierFits(engine.buf[i])
    /\ \A h \in 1..Len(engine.hist) :
           \A i \in 1..Len(engine.hist[h].buf) :
               ModifierFits(engine.hist[h].buf[i])

\* C22 witness: a buffer with a horned cell and a circumflexed cell next to
\* an i, which took no modifier from the triggers typed after it.
C22_Witness ==
    /\ Len(keys) = 5
    /\ keys[1].key = "i"
    /\ keys[2].key # "i"
    /\ Len(engine.buf) = 3
    /\ engine.buf[1].key = "i" /\ engine.buf[1].tone = TONE_NONE
    /\ \E i \in 2..3 : engine.buf[i].tone = HORN
    /\ \E i \in 2..3 : engine.buf[i].tone = CIRCUMFLEX

\* The key takes no such tone modifier: circumflex on i, u, y, horn on e, i,
\* y, or a value that is no modifier at all.
ToneNotTaken(key, tone) ==
    \/ tone = CIRCUMFLEX /\ key \in {"i", "u", "y"}
    \/ tone = HORN /\ key \in {"e", "i", "y"}
    \/ tone > HORN

\* C23: to_char returns a character for every vowel key; a tone modifier
\* the key does not take is ignored (the result is that of tone 0); a mark
\* outside 1..5 leaves the base letter unmarked, a mark within 1..5 is
\* carried; and the result depends on the arguments alone.
C23_ToCharTotalOnVowels ==
    (probe.fn = "to_char" /\ probe.done /\ is_vowel(probe.key))
    => /\ probe.out # NoChar
       /\ probe.out = to_char(probe.key, probe.caps, probe.tone, probe.mark)
       /\ ToneNotTaken(probe.key, probe.tone)
          => /\ probe.out = to_char(probe.key, probe.caps, 0, probe.mark)
             /\ probe.out[1] = probe.key
       /\ probe.mark \notin 1..5
          => probe.out = <<get_base_char(probe.key, probe.tone), 0, probe.caps>>
       /\ probe.mark \in 1..5 => probe.out[2] = probe.mark

\* C23 witness: to_char returned for capital E with the horn and a mark of
\* six: the plain capital E.
C23_Witness ==
    /\ probe.fn = "to_char"
    /\ probe.done
    /\ probe.key = "e" /\ probe.caps /\ probe.tone = HORN /\ probe.mark = 6
    /\ probe.out = <<"e", 0, TRUE>>

\* The first character of the word is z, w, j or f in either case.
HasForeignInitial(word) ==
    word # <<>> /\ word[1][2] = 0 /\ word[1][1] \in {"z", "w", "j", "f"}

\* C25: check_with_style_and_foreign is false for the empty word, false for
\* every word with a first character z, w, j or f (in either case) when
\* allow_foreign is false, and otherwise equals membership of the lower-cased
\* word in the modern dictionary when use_modern is true and in the
\* traditional dictionary when it is false.
C25_SpellCheck ==
    (probe.fn = "check_with_style_and_foreign" /\ probe.done)
    => /\ probe.word = <<>> => ~probe.out
       /\ (~probe.allow_foreign /\ HasForeignInitial(probe.word)) => ~probe.out
       /\ (probe.word # <<>>
           /\ (probe.allow_foreign \/ ~HasForeignInitial(probe.word)))
          => probe.out =
                IF probe.use_modern
                THEN to_lowercase(probe.word) \in DICT_DAUMOI
                ELSE to_lowercase(probe.word) \in DICT_DAUCU

\* C25 witness: a capitalized word with the initial F, whose lower-case form
\* is in the dictionary, was rejected with allow_foreign off.
C25_Witness ==
    /\ probe.fn = "check_with_style_and_foreign"
    /\ probe.done
    /\ probe.word # <<>>
    /\ probe.word[1] = <<"f", 0, TRUE>>
    /\ to_lowercase(probe.word) \in DICT_DAUCU
    /\ ~probe.use_modern
    /\ ~probe.allow_foreign
    /\ ~probe.out

\* The last key was w, typed in Telex into a buffer with room.
TelexW ==
    /\ keys # <<>>
    /\ LastKey.key = "w"
    /\ Before1.engine.enabled
    /\ Before1.engine.method = 0
    /\ ~is_full(Before1.engine.buf)

\* Cell i of buffer b is an a, o or u without a modifier.
FreeForHorn(b, i) == b[i].key \in {"a", "o", "u"} /\ b[i].tone = TONE_NONE

\* The buffer is b with the horn (breve) on cell t and nothing else changed
\* but the place of the tone mark.
HornedAt(b, t) ==
    /\ Len(engine.buf) = Len(b)
    /\ \A i \in 1..Len(b) :
           /\ engine.buf[i].key = b[i].key
           /\ engine.buf[i].stroke = b[i].stroke
           /\ engine.buf[i].tone = IF i = t THEN HORN ELSE b[i].tone

InitBefore(i) == \E j \in 1..(i - 1) : lib.done[j].call = "ime_init"

\* C26: an ime_key call that finds no engine (ime_init has not been called)
\* returns a null pointer and leaves ENGINE empty, and so do ime_method,
\* ime_enabled, ime_modern and ime_clear; once ime_init has returned, every
\* ime_key call returns a non-null pointer to its Result; ime_free of a null
\* pointer leaves every allocation alone.
C26_NullBeforeInit ==
    lib.loaded
    => /\ \A i \in 1..Len(lib.done) :
             LET d == lib.done[i]
             IN  /\ ~InitBefore(i) /\ d.call # "ime_init"
                    => /\ d.before = None
                       /\ d.after = None
                       /\ d.ptr = NULL
                 /\ InitBefore(i) /\ d.call \in KeyCalls
                    => /\ d.ptr # NULL
                       /\ d.value # None
                       /\ d.after # None
       /\ lib.freed.ptr = NULL => lib.freed.after = lib.freed.before

\* C26 witness: ime_key returned null and ime_clear did nothing before
\* ime_init; after it ime_key returned a pointer, and a later ime_free(null)
\* left that allocation alive.
C26_Witness ==
    /\ lib.loaded
    /\ Len(lib.done) = 3
    /\ lib.done[1].call \in KeyCalls /\ lib.done[1].ptr = NULL
    /\ lib.done[2].call = "ime_init"
    /\ lib.done[3].call \in KeyCalls /\ lib.done[3].ptr # NULL
    /\ lib.freed.ptr = NULL
    /\ lib.freed.before = {lib.done[3].ptr}
    /\ lib.heap = {lib.done[3].ptr}

RECURSIVE EngineAfter(_)

\* ENGINE after the first n returned calls have run one after the other,
\* each to completion, in the order in which they returned.
EngineAfter(n) ==
    IF n = 0 THEN None
    ELSE ffi_call(EngineAfter(n - 1), lib.done[n].call).ENGINE

\* Thread t is between taking the lock and returning.
InCall(t) == lib.pc[t] \in {"locked", "read", "written"}

\* C27: FFI calls from several threads exclude each other: a thread that is
\* inside ime_init, ime_key, ime_method, ime_enabled, ime_modern or ime_clear
\* holds the ENGINE lock from its first access to its return, so no two
\* threads are inside at once, and every call found, left and returned what
\* it would have in the sequential run of the calls in the order in which
\* they took the lock.
C27_CallsAreSerialized ==
    lib.loaded
    => /\ \A t \in Threads : InCall(t) => lib.lock = t
       /\ \A t \in Threads, u \in Threads : InCall(t) /\ InCall(u) => t = u
       /\ \A i \in 1..Len(lib.done) :
             /\ lib.done[i].before = EngineAfter(i - 1)
             /\ lib.done[i].after = EngineAfter(i)
             /\ lib.done[i].value =
                   ffi_call(EngineAfter(i - 1), lib.done[i].call).value
       /\ lib.lock = 0 => lib.ENGINE = EngineAfter(Len(lib.done))

\* C27 witness: after ime_init, thread 1 is inside ime_key and has read the
\* engine while thread 2, which called ime_key too, waits for the lock.
C27_Witness ==
    /\ lib.loaded
    /\ Len(lib.done) = 1
    /\ lib.done[1].call = "ime_init"
    /\ lib.lock = 1
    /\ lib.pc[1] = "read"
    /\ lib.pc[2] = "enter"
    /\ lib.call[1] \in KeyCalls
    /\ lib.call[2] \in KeyCalls
    /\ lib.local[1] # None

\* The probed call of find_tone_position has returned.
TonePlaced ==
    probe.fn \in {"find_tone_position", "phonology"} /\ probe.out # NotRun

\* C28: find_tone_position returns the single vowel's position when there
\* is one vowel, and the second vowel's position when there are two vowels
\* and a final consonant, whatever the diacritics of the vowels and whatever
\* the modern flag.
C28_SingleVowelAndClosedPair ==
    TonePlaced
    => /\ Len(probe.vowels) = 1 => probe.out = probe.vowels[1].pos
       /\ (Len(probe.vowels) = 2 /\ probe.has_final)
          => probe.out = probe.vowels[2].pos

\* C28 witness: horned u and plain a before a final consonant, traditional
\* orthography: the second vowel was returned.
C28_Witness ==
    /\ TonePlaced
    /\ Len(probe.vowels) = 2
    /\ probe.vowels[1].key = "u" /\ probe.vowels[1].modifier = 2
    /\ probe.vowels[2].key = "a" /\ probe.vowels[2].modifier = 0
    /\ probe.vowels[1].pos = 1
    /\ probe.has_final /\ ~probe.modern
    /\ probe.out = 2

\* Two vowels in an open syllable, the first with a diacritic, the second
\* without.
OnlyFirstHasDiacritic ==
    /\ Len(probe.vowels) = 2
    /\ ~probe.has_final
    /\ probe.vowels[1].modifier # 0
    /\ probe.vowels[2].modifier = 0

\* C29: for two vowels in an open syllable of which only the first carries
\* a diacritic, find_tone_position returns the first vowel, in modern and
\* traditional mode, also when the letters form a compound vowel or a medial
\* pair (horned u before plain o or plain a).
C29_DiacriticOnFirstWins ==
    (TonePlaced /\ OnlyFirstHasDiacritic)
    => probe.out = probe.vowels[1].pos

\* C29 witness: horned u before plain a, a medial pair by its letters, in
\* modern mode: the u was returned.
C29_Witness ==
    /\ TonePlaced
    /\ OnlyFirstHasDiacritic
    /\ probe.vowels[1].key = "u" /\ probe.vowels[1].modifier = 2
    /\ probe.vowels[2].key = "a"
    /\ probe.vowels[1].pos = 1
    /\ probe.modern
    /\ probe.out = 1

\* Two vowels in an open syllable whose letters are u, o or i, e.
OpenCompound ==
    /\ Len(probe.vowels) = 2
    /\ ~probe.has_final
    /\ <<probe.vowels[1].key, probe.vowels[2].key>>
           \in {<<"u", "o">>, <<"i", "e">>}

\* C30: for a compound vowel (letters u, o or i, e) in an open syllable,
\* find_tone_position returns the second vowel in modern and traditional
\* mode, except when only the first vowel carries a diacritic.
C30_CompoundMarksSecond ==
    (TonePlaced /\ OpenCompound /\ ~OnlyFirstHasDiacritic)
    => probe.out = probe.vowels[2].pos

\* C30 witness: plain u and plain o in traditional mode: the o was
\* returned, where a main vowel with a glide would have kept the mark on u.
C30_Witness ==
    /\ TonePlaced
    /\ OpenCompound
    /\ probe.vowels[1].key = "u" /\ probe.vowels[1].modifier = 0
    /\ probe.vowels[2].modifier = 0
    /\ probe.vowels[1].pos = 0
    /\ ~probe.modern
    /\ probe.out = 1

\* Two vowels in an open syllable, the second with a diacritic.
SecondHasDiacritic ==
    /\ Len(probe.vowels) = 2
    /\ ~probe.has_final
    /\ probe.vowels[2].modifier # 0

\* C31: for two vowels in an open syllable of which the second carries a
\* diacritic, find_tone_position returns the second vowel, also for the
\* letters of a medial pair under traditional orthography, where the pair
\* without diacritic would mark the first vowel.
C31_DiacriticOnSecondWins ==
    (TonePlaced /\ SecondHasDiacritic)
    => /\ probe.out = probe.vowels[2].pos
       /\ probe.out = find_tone_position(probe.vowels, FALSE, ~probe.modern)

\* C31 witness: u and circumflexed e in traditional mode: the e was
\* returned, while plain u, e in that mode marks the u.
C31_Witness ==
    /\ TonePlaced
    /\ SecondHasDiacritic
    /\ probe.vowels[1].key = "u" /\ probe.vowels[1].modifier = 0
    /\ probe.vowels[2].key = "e" /\ probe.vowels[2].modifier = 1
    /\ probe.vowels[1].pos = 1
    /\ ~probe.modern
    /\ probe.out = 2
    /\ find_tone_position(<<Vowel("u", 0, 1), Vowel("e", 0, 2)>>, FALSE, FALSE)
          = 1

\* Two vowels without diacritic in an open syllable that are neither a
\* compound vowel nor a medial pair.
PlainOtherPair ==
    /\ Len(probe.vowels) = 2
    /\ ~probe.has_final
    /\ probe.vowels[1].modifier = 0
    /\ probe.vowels[2].modifier = 0
    /\ <<probe.vowels[1].key, probe.vowels[2].key>>
           \notin {<<"u", "o">>, <<"i", "e">>} \cup MedialPairs

\* C32: for two vowels without diacritic in an open syllable that are
\* neither a compound vowel nor a medial pair, find_tone_position returns
\* the first vowel when the second is i, y, o or u, and the second vowel
\* otherwise, in both orthographies.
C32_MainGlideElseSecond ==
    (TonePlaced /\ PlainOtherPair)
    => IF probe.vowels[2].key \in {"i", "y", "o", "u"}
       THEN probe.out = probe.vowels[1].pos
       ELSE probe.out = probe.vowels[2].pos

\* C32 witness: a, y after two consonants: the a was returned.
C32_Witness ==
    /\ TonePlaced
    /\ PlainOtherPair
    /\ probe.vowels[1].key = "a" /\ probe.vowels[2].key = "y"
    /\ probe.vowels[1].pos = 2
    /\ probe.out = 2

\* C33: for three vowels find_tone_position returns the middle vowel if it
\* carries a diacritic, else the last vowel if that one carries a
\* diacritic, else the middle vowel of a cluster starting u-o or o-a and
\* the last vowel of u-y-e; neither flag changes the result.
C33_ThreeVowels ==
    (TonePlaced /\ Len(probe.vowels) = 3)
    => LET v == probe.vowels
       IN  /\ IF v[2].modifier # 0 THEN probe.out = v[2].pos
              ELSE IF v[3].modifier # 0 THEN probe.out = v[3].pos
              ELSE IF <<v[1].key, v[2].key>> \in {<<"u", "o">>, <<"o", "a">>}
                   THEN probe.out = v[2].pos
              ELSE IF <<v[1].key, v[2].key, v[3].key>> = <<"u", "y", "e">>
                   THEN probe.out = v[3].pos
              ELSE TRUE
           /\ \A f \in BOOLEAN, m \in BOOLEAN :
                 probe.out = find_tone_position(v, f, m)

\* C33 witness: u, y and circumflexed e before a final consonant: the e
\* was returned although the middle vowel is the default.
C33_Witness ==
    /\ TonePlaced
    /\ Len(probe.vowels) = 3
    /\ probe.vowels[1].key = "u" /\ probe.vowels[2].key = "y"
    /\ probe.vowels[3].key = "e" /\ probe.vowels[3].modifier = 1
    /\ probe.vowels[2].modifier = 0
    /\ probe.has_final
    /\ probe.out = probe.vowels[3].pos
    /\ probe.out > 2

\* The 1-based index of the middle vowel, floor(n / 2) counted from 0.
MiddleVowel == (Len(probe.vowels) \div 2) + 1

Diacritics == {i \in 1..Len(probe.vowels) : probe.vowels[i].modifier # 0}

\* C34: for four or more vowels find_tone_position returns the middle
\* vowel if it carries a diacritic, else the leftmost vowel that carries
\* one, else the middle vowel.
C34_FourOrMore ==
    (TonePlaced /\ Len(probe.vowels) >= 4)
    => LET v == probe.vowels
       IN  IF MiddleVowel \in Diacritics \/ Diacritics = {}
           THEN probe.out = v[MiddleVowel].pos
           ELSE \E i \in Diacritics :
                   /\ \A j \in Diacritics : i <= j
                   /\ probe.out = v[i].pos

\* C34 witness: five vowels of which only the fourth and the fifth carry
\* a diacritic: the fourth was returned.
C34_Witness ==
    /\ TonePlaced
    /\ Len(probe.vowels) = 5
    /\ Diacritics = {4, 5}
    /\ probe.out = probe.vowels[4].pos

\* C35: for every non-empty vowel list and either value of the
\* final-consonant flag, the position find_tone_position returns is one
\* that classify_roles labels Main.
C35_ToneOnMain ==
    (TonePlaced /\ probe.classified /\ Len(probe.vowels) > 0)
    => \E i \in 1..Len(probe.roles) :
          probe.roles[i] = <<probe.out, "Main">>

\* C38: for every non-empty vowel list and all flag values,
\* find_tone_position returns the pos of one of the listed vowels; it
\* returns 0 only for the empty list or when a listed vowel sits at
\* position 0.
C38_PositionOfAVowel ==
    TonePlaced
    => /\ Len(probe.vowels) > 0
          => \E i \in 1..Len(probe.vowels) : probe.out = probe.vowels[i].pos
       /\ probe.out = 0
          => \/ probe.vowels = <<>>
             \/ \E i \in 1..Len(probe.vowels) : probe.vowels[i].pos = 0
       /\ probe.vowels = <<>> => probe.out = 0

\* C38 witness: three vowels after MaxOnset consonants: the position
\* returned is the last vowel's, past the vowels' indices in the list.
C38_Witness ==
    /\ TonePlaced
    /\ Len(probe.vowels) = 3
    /\ probe.vowels[1].pos = MaxOnset
    /\ probe.out = MaxOnset + 2

\* C37: has_qu_initial(buffer) is true exactly when the first cell is q and
\* the second cell is u, and false for every other buffer.
C37_QuInitial ==
    (probe.fn = "has_qu_initial" /\ probe.done)
    => (probe.out <=> /\ Len(probe.buf) >= 2
                      /\ probe.buf[1].key = "q"
                      /\ probe.buf[2].key = "u")

\* Typed(w): the keys so far are the letters of w, in order.
TypedKeys(w) ==
    /\ Len(keys) = Len(w)
    /\ \A i \in 1..Len(w) : keys[i].key = w[i]

\* C36: after every keystroke, if the buffer holds a mark, the marked cell
\* is the one the tone-placement rules select for the buffer's vowels,
\* diacritics and final consonant; so VNI u-o-1-7 shows u-horn, o-horn-acute,
\* u-a-2-7 shows u-horn-grave, a and o-6-a-2 shows o-circumflex-grave, a.
C36_MarkFollowsRules ==
    /\ \A i \in 1..Len(engine.buf) :
          engine.buf[i].mark # 0
          => i = tone_position(engine.buf, engine.modern)
    /\ TypedKeys(<<"u", "o", "1", "7">>)
       => screen = << <<"uw", 0, FALSE>>, <<"ow", 1, FALSE>> >>
    /\ TypedKeys(<<"u", "a", "2", "7">>)
       => screen = << <<"uw", 2, FALSE>>, <<"a", 0, FALSE>> >>
    /\ TypedKeys(<<"o", "6", "a", "2">>)
       => screen = << <<"oo", 2, FALSE>>, <<"a", 0, FALSE>> >>

\* C36 witness: o-a-s-n in traditional orthography: the acute sat on the o
\* of the open syllable and the final consonant moved it to the a.
C36_Witness ==
    /\ TypedKeys(<<"o", "a", "s", "n">>)
    /\ ~engine.modern
    /\ Before1.engine.buf[1].mark = 1
    /\ Before1.engine.buf[2].mark = 0
    /\ engine.buf[1].mark = 0
    /\ engine.buf[2].mark = 1

\* The index of the last clear() among the events, 0 when there is none,
\* and the keys that followed it.
LastClear == Rightmost({i \in 1..Len(keys) : keys[i].key = "clear()"})

SinceClear == SubSeq(keys, LastClear + 1, Len(keys))

\* The last event is a key typed after a clear().
KeyAfterClear == LastClear # 0 /\ SinceClear # <<>>

\* The engine's answer to the last key and the buffer it left are those of
\* a fresh engine of the same configuration given the keys since the clear.
AsFreshEngine ==
    /\ result = Run(profile, SinceClear).result
    /\ engine.buf = Run(profile, SinceClear).engine.buf
    /\ engine.raw = Run(profile, SinceClear).engine.raw

SendReturned ==
    /\ keys # <<>>
    /\ LastKey.key \notin ConfigCalls
    /\ result.action = "Send"

\* The characters on screen before the last key that belong to the
\* syllable being edited: those shown since the syllable in progress began
\* or, when the key undid a step, since the restored syllable began, which
\* after a terminator counts the terminator as well.
OwnChars ==
    IF LastKey.key = DELETE
    THEN Len(Before1.screen) - Len(committed)
    ELSE Len(Before1.screen) - Len(Before1.committed)

\* C40: in every Send result the backspace count is at most the number of
\* characters shown since the syllable being edited began (with the
\* terminator when a terminator is undone), so the text that precedes that
\* syllable is on screen unchanged after the result was applied.
C40_BackspaceWithinSyllable ==
    SendReturned
    => /\ result.backspace <= OwnChars
       /\ LET kept == IF LastKey.key = DELETE THEN committed
                      ELSE Before1.committed
          IN  /\ Len(screen) >= Len(kept)
              /\ SubSeq(screen, 1, Len(kept)) = kept
              /\ SubSeq(Before1.screen, 1, Len(kept)) = kept

\* C40 witness: with text on screen before the syllable in progress, a key
\* made the engine rewrite the whole syllable: the backspace count equals
\* the syllable's characters and the text before it stayed.
C40_Witness ==
    /\ SendReturned
    /\ LastKey.key # DELETE
    /\ Before1.committed # <<>>
    /\ result.backspace > 0
    /\ result.backspace = OwnChars
    /\ Len(screen) > Len(Before1.committed)

====
